--------------------------- MODULE LocationStoreProofs ---------------------------
(***************************************************************************)
(* Proofs about LocationManager's store, for any number of worker threads  *)
(* and users and any length of the table.                                  *)
(***************************************************************************)
EXTENDS LocationStore, SetInduction, FiniteSetTheorems, TLAPS

Row == [id : Nat \ {0}, user : Users, at : Positions, name : Names \cup {Null}]

Updates == [op : {"update"}, user : Users, at : Positions, name : Names \cup {None}]

\* Every step of a call has the call it works on; the compiled database has no
\* rows, and so nothing to remove.
StepsTyped ==
    /\ answer = [t \in Threads |-> answer[t]]
    /\ IsFiniteSet(rows)
    /\ database = "stub" => rows = {}
    /\ \A t \in Threads :
          /\ pc[t] \in {"write", "reload"} => call[t] \in Updates
          /\ pc[t] = "remove" => call[t].op = "delete" /\ database # "stub"

StoreInv == TypeOK /\ StepsTyped

-----------------------------------------------------------------------------
(* Rows *)

\* A key that no row has is there among one more numbers than there are rows.
LEMMA KeyIsFree ==
  ASSUME IsFiniteSet(rows)
  PROVE  \E k \in 1 .. Cardinality(rows) + 1 : \A r \in rows : r.id # k
<1> SUFFICES ASSUME \A k \in 1 .. Cardinality(rows) + 1 : \E r \in rows : r.id = k
             PROVE  FALSE
  OBVIOUS
<1> DEFINE n == Cardinality(rows)
           keys == {r.id : r \in rows}
           f == [r \in rows |-> r.id]
<1>1. n \in Nat
  BY FS_CardinalityType
<1>2. f \in Surjection(rows, keys)
  BY DEF Surjection
<1>3. IsFiniteSet(keys) /\ Cardinality(keys) <= n
  BY <1>2, FS_Surjection
<1>4. 1 .. n + 1 \in SUBSET keys
  OBVIOUS
<1>5. Cardinality(1 .. n + 1) <= Cardinality(keys)
  BY <1>3, <1>4, FS_Subset
<1>6. Cardinality(1 .. n + 1) = n + 1
  BY <1>1, FS_Interval
<1>7. Cardinality(keys) \in Nat
  BY <1>3, FS_CardinalityType
<1> HIDE DEF n, keys
<1> QED
  BY <1>1, <1>3, <1>5, <1>6, <1>7

\* An INSERT adds a row of the call's user with the call's place.
LEMMA Inserted ==
  ASSUME rows \subseteq Row, IsFiniteSet(rows), NEW c \in Updates
  PROVE  \E r \in Row : /\ Insert(c) = rows \cup {r} /\ r.user = c.user /\ r.at = c.at
                        /\ r \notin rows
<1> DEFINE key == CHOOSE k \in 1 .. Cardinality(rows) + 1 : \A r \in rows : r.id # k
           r == [id |-> key, user |-> c.user, at |-> c.at,
                 name |-> IF c.name = None THEN Null ELSE c.name]
<1>1. key \in 1 .. Cardinality(rows) + 1 /\ \A s \in rows : s.id # key
  BY KeyIsFree
<1>2. key \in Nat \ {0}
  BY <1>1, FS_CardinalityType
<1> HIDE DEF key
<1>3. r \in Row /\ r.user = c.user /\ r.at = c.at /\ r.id = key
  BY <1>2 DEF Row, Updates
<1>4. Insert(c) = rows \cup {r}
  BY DEF Insert, key
<1> QED
  BY <1>1, <1>3, <1>4

\* An UPDATE writes the call's place in each row of its user, and nothing else.
LEMMA Updated ==
  ASSUME rows \subseteq Row, IsFiniteSet(rows), NEW c \in Updates
  PROVE  /\ Update(c) \subseteq Row /\ IsFiniteSet(Update(c))
         /\ \A s \in Update(c) : s.user = c.user => s.at = c.at
         /\ \A s : s.user # c.user => (s \in Update(c) <=> s \in rows)
         /\ \A u : Cardinality({s \in Update(c) : s.user = u}) <= Cardinality(RowsOf(u))
         /\ RowsOf(c.user) # {} => \E s \in Update(c) : s.user = c.user
<1> DEFINE W(r) == IF r.user # c.user THEN r
                   ELSE [r EXCEPT !.at = c.at, !.name = IF c.name = None THEN @ ELSE c.name]
<1>1. Update(c) = {W(r) : r \in rows}
  BY DEF Update
<1>2. ASSUME NEW r \in rows
      PROVE  /\ W(r) \in Row /\ W(r).user = r.user
             /\ r.user # c.user => W(r) = r
             /\ r.user = c.user => W(r).at = c.at
  BY <1>2 DEF Row, Updates
<1> HIDE DEF W
<1>3. ASSUME NEW u
      PROVE  /\ IsFiniteSet({s \in Update(c) : s.user = u})
             /\ Cardinality({s \in Update(c) : s.user = u}) <= Cardinality(RowsOf(u))
  <2> DEFINE S == RowsOf(u)
             T == {s \in Update(c) : s.user = u}
             f == [r \in S |-> W(r)]
  <2>1. f \in Surjection(S, T)
    BY <1>1, <1>2 DEF Surjection, RowsOf
  <2>2. IsFiniteSet(S)
    BY FS_Subset DEF RowsOf
  <2> QED
    BY <2>1, <2>2, FS_Surjection
<1>4. IsFiniteSet(Update(c))
  <2> DEFINE f == [r \in rows |-> W(r)]
  <2>1. f \in Surjection(rows, Update(c))
    BY <1>1 DEF Surjection
  <2> QED
    BY <2>1, FS_Surjection
<1>5. /\ Update(c) \subseteq Row
      /\ \A s \in Update(c) : s.user = c.user => s.at = c.at
      /\ \A s : s.user # c.user => (s \in Update(c) <=> s \in rows)
      /\ RowsOf(c.user) # {} => \E s \in Update(c) : s.user = c.user
  BY <1>1, <1>2 DEF RowsOf
<1> QED
  BY <1>3, <1>4, <1>5

-----------------------------------------------------------------------------
(* Types *)

LEMMA StoreInit == Init => StoreInv
  BY StoreAssumption, FS_EmptySet DEF Init, StoreInv, TypeOK, StepsTyped

LEMMA PersistKeepsTypes ==
  ASSUME StoreInv, NEW t \in Threads, Persist(t)
  PROVE  StoreInv'
<1>1. rows \subseteq Row /\ IsFiniteSet(rows) /\ call[t] \in Updates
  BY DEF Persist, Goto, StoreInv, StepsTyped, TypeOK, Row
<1>2. /\ Update(call[t]) \subseteq Row /\ IsFiniteSet(Update(call[t]))
      /\ Insert(call[t]) \subseteq Row /\ IsFiniteSet(Insert(call[t]))
  BY <1>1, Updated, Inserted, FS_AddElement
<1>3. rows' \subseteq Row /\ IsFiniteSet(rows') /\ (database = "stub" => rows' = rows)
  BY <1>1, <1>2 DEF Persist, Executed
<1> QED
  BY <1>3 DEF Persist, Goto, StoreInv, StepsTyped, TypeOK, Row

\* A misread is counted and doubted about the call's user.
LEMMA MisreadsTyped ==
  ASSUME StoreInv, NEW t \in Threads,
         LookForUpdate(t) \/ Reload(t) \/ LookForGet(t) \/ LookForDelete(t)
  PROVE  doubted' \subseteq Users /\ hidden' \in [Users -> 0 .. MaxHidden]
<1>1. call[t] # None /\ call[t] \in Call
  BY DEF LookForUpdate, Reload, LookForGet, LookForDelete, Respond, Goto, StoreInv, TypeOK
<1>2. call[t].user \in Users
  BY <1>1 DEF Call
<1>3. doubted' = doubted \/ doubted' = doubted \cup {call[t].user}
  BY DEF LookForUpdate, Reload, LookForGet, LookForDelete, NoteMisread
<1>4. hidden' \in [Users -> 0 .. MaxHidden]
  <2>1. CASE hidden' = hidden
    BY <2>1 DEF StoreInv, TypeOK
  <2>2. CASE /\ hidden[call[t].user] < MaxHidden
             /\ hidden' = [hidden EXCEPT ![call[t].user] = @ + 1]
    BY <1>2, <2>2, StoreAssumption DEF StoreInv, TypeOK
  <2> QED
    BY <2>1, <2>2 DEF LookForUpdate, Reload, LookForGet, LookForDelete
<1> QED
  BY <1>2, <1>3, <1>4 DEF StoreInv, TypeOK

LEMMA StoreStep == StoreInv /\ [Next]_vars => StoreInv'
<1> SUFFICES ASSUME StoreInv, [Next]_vars PROVE StoreInv'
  OBVIOUS
<1> USE StoreAssumption
<1>1. ASSUME NEW t \in Threads, ThreadStep(t) PROVE StoreInv'
  <2>1. CASE LookForUpdate(t)
    <3>1. /\ call[t] \in Updates /\ call[t] # None
          /\ pc' = [pc EXCEPT ![t] = "write"] /\ found' \in [Threads -> BOOLEAN]
          /\ UNCHANGED <<database, riders, rows, call, answer, alone>>
      BY <2>1 DEF LookForUpdate, Goto, StoreInv, TypeOK, Call, Updates
    <3>2. doubted' \subseteq Users /\ hidden' \in [Users -> 0 .. MaxHidden]
      BY <2>1, MisreadsTyped
    <3>3. \A x \in Threads : pc'[x] = "idle" => x # t /\ found'[x] = found[x]
      BY <2>1, <3>1 DEF LookForUpdate, StoreInv, TypeOK
    <3> QED
      BY <3>1, <3>2, <3>3 DEF StoreInv, StepsTyped, TypeOK
  <2>2. CASE Persist(t)
    BY <2>2, PersistKeepsTypes
  <2>3. CASE FailToPersist(t)
    <3>1. call[t].user \in Users
      BY <2>3 DEF FailToPersist, Respond, Goto, StoreInv, StepsTyped, Updates
    <3> QED
      BY <2>3, <3>1 DEF FailToPersist, Respond, Goto, StoreInv, StepsTyped, TypeOK
  <2>4. CASE Reload(t) \/ LookForGet(t)
    <3>1. doubted' \subseteq Users
      BY <2>4, MisreadsTyped
    <3> QED
      BY <2>4, <3>1 DEF Reload, LookForGet, Respond, Goto, StoreInv, StepsTyped, TypeOK
  <2>5. CASE LookForDelete(t)
    <3>1. doubted' \subseteq Users
      BY <2>5, MisreadsTyped
    <3>2. database = "stub" => pc'[t] = "answer"
      BY <2>5 DEF LookForDelete, FetchLocationRecord, RowsOf, Respond, Goto, StoreInv, StepsTyped, TypeOK
    <3> QED
      BY <2>5, <3>1, <3>2 DEF LookForDelete, Respond, Goto, StoreInv, StepsTyped, TypeOK
  <2>6. CASE Remove(t)
    <3>1. call[t].user \in Users
      BY <2>6 DEF Remove, Respond, Goto, StoreInv, TypeOK, Call
    <3>2. rows' \subseteq rows
      BY <2>6 DEF Remove, Executed
    <3>3. IsFiniteSet(rows')
      BY <3>2, FS_Subset DEF StoreInv, StepsTyped
    <3> QED
      BY <2>6, <3>1, <3>2, <3>3 DEF Remove, Respond, Goto, StoreInv, StepsTyped, TypeOK
  <2>7. CASE Reply(t)
    BY <2>7 DEF Reply, Goto, StoreInv, StepsTyped, TypeOK
  <2> QED
    BY <1>1, <2>1, <2>2, <2>3, <2>4, <2>5, <2>6, <2>7 DEF ThreadStep
<1>2. ASSUME NEW t \in Threads, NEW c \in Call, Accept(t, c) PROVE StoreInv'
  <2>1. c.user \in Users /\ c # None
    BY DEF Call
  <2> QED
    BY <1>2, <2>1 DEF Accept, Goto, StoreInv, StepsTyped, TypeOK
<1>3. ASSUME NEW t \in Threads,
             Refuse(t) \/ \E centre \in Centres, radius \in Radii : FindNearby(t, centre, radius)
      PROVE  StoreInv'
  BY <1>3 DEF Refuse, FindNearby, Respond, Goto, StoreInv, StepsTyped, TypeOK
<1>4. CASE UNCHANGED vars
  BY <1>4 DEF vars, StoreInv, StepsTyped, TypeOK
<1> QED
  BY <1>1, <1>2, <1>3, <1>4 DEF Next

LEMMA StoreTyping == Spec => []StoreInv
  BY StoreInit, StoreStep, PTL DEF Spec

\* The rows are rows, and every step has the call it serves.
THEOREM StoreTypeCorrect == Spec => []TypeOK
<1>1. StoreInv => TypeOK
  BY DEF StoreInv
<1> QED
  BY <1>1, StoreTyping, PTL

-----------------------------------------------------------------------------
(* What a step leaves alone *)

ThreadActs(t) ==
    \/ ThreadStep(t) \/ Refuse(t)
    \/ \E c \in Call : Accept(t, c)
    \/ \E centre \in Centres, radius \in Radii : FindNearby(t, centre, radius)

LEMMA NextByThread == [Next]_vars => UNCHANGED vars \/ \E t \in Threads : ThreadActs(t)
  BY DEF Next, ThreadActs

\* Another thread stays where it is; only Accept takes its call for itself.
LEMMA OthersStay ==
  ASSUME StoreInv, NEW t \in Threads, ThreadActs(t), NEW x \in Threads, x # t
  PROVE  /\ pc'[x] = pc[x] /\ call'[x] = call[x] /\ found'[x] = found[x]
         /\ answer'[x] = answer[x] /\ database' = database
         /\ alone'[x] => alone[x]
         /\ alone'[x] => call[x] = None \/ call'[t] = call[t] \/ call'[t] = None
                            \/ call'[t].user # call[x].user
<1> USE DEF StoreInv, StepsTyped, TypeOK
<1>1. CASE LookForUpdate(t) \/ Persist(t) \/ FailToPersist(t) \/ Reload(t)
  BY <1>1 DEF LookForUpdate, Persist, FailToPersist, Reload, Respond, Goto
<1>2. CASE LookForGet(t) \/ LookForDelete(t) \/ Remove(t) \/ Refuse(t)
  BY <1>2 DEF LookForGet, LookForDelete, Remove, Refuse, Respond, Goto
<1>3. CASE Reply(t)
  BY <1>3 DEF Reply, Goto
<1>4. CASE \E centre \in Centres, radius \in Radii : FindNearby(t, centre, radius)
  BY <1>4 DEF FindNearby, Respond, Goto
<1>5. CASE \E c \in Call : Accept(t, c)
  <2>1. PICK c \in Call : Accept(t, c)
    BY <1>5
  <2>2. /\ pc'[x] = pc[x] /\ call'[x] = call[x] /\ found'[x] = found[x]
        /\ answer'[x] = answer[x] /\ database' = database /\ call'[t] = c
    BY <2>1 DEF Accept, Goto
  <2>3. alone'[x] = IF x \in About(c.user) THEN FALSE ELSE alone[x]
    BY <2>1 DEF Accept
  <2>4. x \notin About(c.user) => call[x] = None \/ call[x].user # c.user
    BY DEF About
  <2> QED
    BY <2>2, <2>3, <2>4
<1> QED
  BY <1>1, <1>2, <1>3, <1>4, <1>5 DEF ThreadActs, ThreadStep

\* Only the statements of a call write rows, and only rows of its user.
LEMMA OthersRowsStay ==
  ASSUME StoreInv, NEW t \in Threads, ThreadActs(t)
  PROVE  /\ rows' # rows => Persist(t) \/ Remove(t)
         /\ \A u : call[t] # None /\ call[t].user # u => RowsOf(u)' = RowsOf(u)
<1>1. rows' # rows => Persist(t) \/ Remove(t)
  BY DEF ThreadActs, ThreadStep, LookForUpdate, FailToPersist, Reload, LookForGet,
         LookForDelete, Reply, Refuse, Accept, FindNearby
<1>2. ASSUME NEW u, call[t] # None, call[t].user # u PROVE RowsOf(u)' = RowsOf(u)
  <2>1. CASE Persist(t)
    <3>1. rows \subseteq Row /\ IsFiniteSet(rows) /\ call[t] \in Updates
      BY <2>1 DEF Persist, Goto, StoreInv, StepsTyped, TypeOK, Row
    <3>2. rows' = rows \/ rows' = Update(call[t]) \/ rows' = Insert(call[t])
      BY <2>1 DEF Persist, Executed
    <3> QED
      BY <1>2, <3>1, <3>2, Updated, Inserted DEF RowsOf
  <2>2. CASE Remove(t)
    BY <1>2, <2>2 DEF Remove, Executed, RowsOf
  <2>3. CASE rows' = rows
    BY <2>3 DEF RowsOf
  <2> QED
    BY <1>1, <2>1, <2>2, <2>3
<1> QED
  BY <1>1, <1>2

-----------------------------------------------------------------------------
(* The compiled database *)

LEMMA StubStep == StoreInv /\ StubStoresNothing /\ [Next]_vars => StubStoresNothing'
<1> SUFFICES ASSUME StoreInv, StubStoresNothing, [Next]_vars, NEW t \in Threads,
                    database' = "stub", pc'[t] = "answer", call'[t] # None
             PROVE  answer'[t].status \in {404, 500}
  BY DEF StubStoresNothing
<1>1. CASE UNCHANGED vars
  BY <1>1 DEF vars, StubStoresNothing
<1>2. ASSUME NEW x \in Threads, x # t, ThreadActs(x) PROVE answer'[t].status \in {404, 500}
  BY <1>2, OthersStay DEF StubStoresNothing
<1>3. CASE ThreadActs(t)
  <2> USE DEF StoreInv, StepsTyped, TypeOK
  <2>1. database = "stub" /\ rows = {}
    BY <1>3 DEF ThreadActs, ThreadStep, LookForUpdate, Persist, FailToPersist, Reload,
                LookForGet, LookForDelete, Remove, Reply, Refuse, Accept, FindNearby
  <2>2. RowsOf(call[t].user) = {}
    BY <2>1 DEF RowsOf
  <2>3. CASE Reload(t) \/ LookForGet(t)
    BY <2>2, <2>3 DEF Reload, LookForGet, FetchLocationRecord, Respond, Goto, Answer
  <2>4. CASE LookForDelete(t)
    <3>1. answer' = [answer EXCEPT ![t] = Answer(404, None)]
      BY <2>2, <2>4 DEF LookForDelete, FetchLocationRecord, Respond
    <3> QED
      BY <3>1 DEF Answer
  <2>5. ~(Persist(t) \/ LookForUpdate(t) \/ Reply(t) \/ FailToPersist(t))
    BY <2>1 DEF Persist, LookForUpdate, Reply, FailToPersist, Goto
  <2>6. ~(Remove(t) \/ Refuse(t))
    BY <2>1 DEF Remove, Refuse, Respond, Goto
  <2>7. ~ \E centre \in Centres, radius \in Radii : FindNearby(t, centre, radius)
    BY DEF FindNearby, Respond, Goto
  <2>8. ~ \E c \in Call : Accept(t, c)
    BY DEF Accept, Goto
  <2> QED
    BY <1>3, <2>3, <2>4, <2>5, <2>6, <2>7, <2>8 DEF ThreadActs, ThreadStep
<1> QED
  BY <1>1, <1>2, <1>3, NextByThread

\* With the compiled database no update is answered as stored.
THEOREM StubNeverStores == Spec => []StubStoresNothing
<1>1. Init => StubStoresNothing
  BY DEF Init, StubStoresNothing
<1> QED
  BY <1>1, StubStep, StoreTyping, PTL DEF Spec

-----------------------------------------------------------------------------
(* Updates *)

\* A call that is alone is alone now; what it has found stays there until it writes,
\* what it has not found was hidden or stays away, and what it wrote stands.
AloneInv ==
    \A t \in Threads :
        /\ alone[t] /\ call[t] # None =>
              \A x \in Threads \ {t} : call[x] = None \/ call[x].user # call[t].user
        /\ alone[t] /\ pc[t] = "write" =>
              IF found[t] THEN RowsOf(call[t].user) # {}
              ELSE RowsOf(call[t].user) = {} \/ hidden[call[t].user] > 0
        /\ alone[t] /\ pc[t] = "reload" /\ (found[t] \/ hidden[call[t].user] = 0) =>
              \A r \in RowsOf(call[t].user) : r.at = call[t].at

ReachInv == AloneInv /\ UpdateReachesEveryRow

LEMMA ReachInit == Init => ReachInv
  BY DEF Init, ReachInv, AloneInv, UpdateReachesEveryRow

LEMMA HiddenCounts ==
  ASSUME StoreInv, NEW t \in Threads, ThreadActs(t), NEW u \in Users
  PROVE  /\ hidden[u] \in Nat /\ hidden'[u] \in Nat /\ hidden[u] <= hidden'[u]
<1>1. CASE hidden' = hidden
  BY <1>1, StoreAssumption DEF StoreInv, TypeOK
<1>2. CASE LookForUpdate(t) /\ hidden' = [hidden EXCEPT ![call[t].user] = @ + 1]
  BY <1>2, StoreAssumption DEF StoreInv, TypeOK
<1> QED
  BY <1>1, <1>2 DEF ThreadActs, ThreadStep, LookForUpdate, Persist, FailToPersist, Reload,
     LookForGet, LookForDelete, Remove, Reply, Refuse, Accept, FindNearby

\* What one call about a user has in its hands is not touched by calls about others.
LEMMA ReachOthers ==
  ASSUME StoreInv, ReachInv, NEW t \in Threads, ThreadActs(t), NEW x \in Threads, x # t,
         alone'[x], call'[x] # None
  PROVE  /\ alone[x] /\ call[x] # None
         /\ pc'[x] = pc[x] /\ call'[x] = call[x] /\ found'[x] = found[x]
         /\ answer'[x] = answer[x]
         /\ call'[t] = None \/ call'[t].user # call[x].user
         /\ RowsOf(call[x].user)' = RowsOf(call[x].user)
         /\ hidden'[call[x].user] = 0 => hidden[call[x].user] = 0
<1>1. /\ alone[x] /\ call[x] # None
      /\ pc'[x] = pc[x] /\ call'[x] = call[x] /\ found'[x] = found[x] /\ answer'[x] = answer[x]
      /\ call'[t] = call[t] \/ call'[t] = None \/ call'[t].user # call[x].user
  BY OthersStay
<1>2. call[t] = None \/ call[t].user # call[x].user
  BY <1>1 DEF ReachInv, AloneInv
<1>3. rows' # rows => call[t] # None
  BY OthersRowsStay DEF Persist, Remove, Respond, Goto, StoreInv, TypeOK
<1>4. RowsOf(call[x].user)' = RowsOf(call[x].user)
  <2> DEFINE u == call[x].user
  <2>1. CASE rows' = rows
    BY <1>1, <2>1 DEF RowsOf
  <2>2. CASE rows' # rows
    <3>1. call[t] # None /\ call[t].user # u
      BY <1>2, <1>3, <2>2
    <3>2. \A v : v = u => {r \in rows' : r.user = v} = {r \in rows : r.user = v}
      BY <3>1, OthersRowsStay DEF RowsOf
    <3> QED
      BY <1>1, <3>2 DEF RowsOf
  <2> QED
    BY <2>1, <2>2
<1>5. call[x].user \in Users
  <2>1. call[x] \in Call
    BY <1>1 DEF StoreInv, TypeOK
  <2> QED
    BY <2>1 DEF Call
<1>6. hidden'[call[x].user] = 0 => hidden[call[x].user] = 0
  BY <1>5, HiddenCounts
<1> QED
  BY <1>1, <1>2, <1>4, <1>6

\* A thread's own step keeps what it has in its hands.
LEMMA ReachOwn ==
  ASSUME StoreInv, ReachInv, NEW t \in Threads, ThreadActs(t), alone'[t], call'[t] # None
  PROVE  /\ \A x \in Threads \ {t} : call'[x] = None \/ call'[x].user # call'[t].user
         /\ pc'[t] = "write" =>
               IF found'[t] THEN {r \in rows' : r.user = call'[t].user} # {}
               ELSE {r \in rows' : r.user = call'[t].user} = {} \/ hidden'[call'[t].user] > 0
         /\ pc'[t] = "reload" /\ (found'[t] \/ hidden'[call'[t].user] = 0) =>
               \A r \in rows' : r.user = call'[t].user => r.at = call'[t].at
         /\ pc'[t] = "answer" /\ call'[t].op = "update"
               /\ (\/ answer'[t].status = 200
                   \/ answer'[t].status = 201 /\ hidden'[call'[t].user] = 0) =>
               \A r \in rows' : r.user = call'[t].user =>
                  r.at = call'[t].at /\ answer'[t].place.at = r.at
<1>0. \A x \in Threads \ {t} : call'[x] = call[x]
  BY OthersStay
<1> USE DEF StoreInv, StepsTyped, TypeOK
<1>1. CASE \E c \in Call : Accept(t, c)
  <2>1. PICK c \in Call : Accept(t, c)
    BY <1>1
  <2>2. pc'[t] = "look" /\ call'[t] = c /\ About(c.user) = {}
    BY <2>1 DEF Accept, Goto
  <2> QED
    BY <1>0, <2>2 DEF About
<1>2. ~Refuse(t) /\ ~Reply(t)
      /\ ~ \E centre \in Centres, radius \in Radii : FindNearby(t, centre, radius)
  BY DEF Refuse, Reply, FindNearby, Respond, Goto
<1>3. CASE ThreadStep(t)
  <2> DEFINE u == call[t].user
  <2>1. call' = call /\ alone' = alone
    BY <1>2, <1>3 DEF ThreadStep, LookForUpdate, Persist, FailToPersist, Reload, LookForGet,
                      LookForDelete, Remove
  <2>2. \A x \in Threads \ {t} : call'[x] = None \/ call'[x].user # call'[t].user
    BY <2>1 DEF ReachInv, AloneInv
  <2>3. CASE LookForUpdate(t)
    <3>1. pc'[t] = "write" /\ rows' = rows
      BY <2>3 DEF LookForUpdate, Goto
    <3>2. RowsOf(u) = {r \in rows' : r.user = call'[t].user}
      BY <2>1, <3>1 DEF RowsOf
    <3>3. PICK place \in FetchLocationRecord(u) :
             /\ found'[t] = (place # None)
             /\ Misread(u, place) => hidden' = [hidden EXCEPT ![u] = @ + 1]
      BY <2>3 DEF LookForUpdate
    <3>4. place # None => RowsOf(u) # {}
      BY DEF FetchLocationRecord
    <3>5. u \in Users
      <4>1. call[t] \in Call
        BY <2>3 DEF LookForUpdate, Goto
      <4> QED
        BY <4>1 DEF Call
    <3>6. Misread(u, place) => hidden'[u] > 0
      BY <3>3, <3>5, StoreAssumption
    <3> QED
      BY <2>1, <2>2, <3>1, <3>2, <3>3, <3>4, <3>6 DEF Misread
  <2>4. CASE Persist(t)
    <3>1. rows \subseteq Row /\ IsFiniteSet(rows) /\ call[t] \in Updates /\ pc[t] = "write"
      BY <2>4 DEF Persist, Goto, Row
    <3>2. ~found[t] /\ hidden'[u] = 0 => RowsOf(u) = {}
      BY <2>1, <2>4, <3>1 DEF ReachInv, AloneInv, Persist
    <3>3. CASE rows' = rows /\ rows = {}
      BY <2>1, <2>2, <2>4, <3>3 DEF Persist, Goto
    <3>4. CASE found[t] /\ rows' = Update(call[t])
      BY <2>1, <2>2, <2>4, <3>1, <3>4, Updated DEF Persist, Goto
    <3>5. CASE ~found[t] /\ rows' = Insert(call[t])
      BY <2>1, <2>2, <2>4, <3>1, <3>2, <3>5, Inserted DEF Persist, Goto, RowsOf
    <3>6. \/ rows' = rows /\ rows = {}
          \/ found[t] /\ rows' = Update(call[t])
          \/ ~found[t] /\ rows' = Insert(call[t])
      BY <2>4 DEF Persist, Executed
    <3> QED
      BY <3>3, <3>4, <3>5, <3>6
  <2>5. CASE FailToPersist(t)
    BY <2>1, <2>2, <2>5 DEF FailToPersist, Respond, Goto, Answer
  <2>6. CASE Reload(t)
    <3>1. PICK place \in FetchLocationRecord(u) :
             answer' = [answer EXCEPT ![t] = Answer(IF place = None THEN 500
                                      ELSE IF found[t] THEN 200 ELSE 201, place)]
      BY <2>6 DEF Reload, Respond
    <3>2. rows' = rows /\ pc[t] = "reload" /\ pc'[t] = "answer"
      BY <2>6 DEF Reload, Respond, Goto
    <3>3. found[t] \/ hidden'[u] = 0 => \A r \in RowsOf(u) : r.at = call[t].at
      BY <2>1, <2>6, <3>2 DEF ReachInv, AloneInv, Reload
    <3>4. /\ answer'[t].place = place
          /\ answer'[t].status = IF place = None THEN 500 ELSE IF found[t] THEN 200 ELSE 201
      BY <3>1 DEF Answer
    <3>5. place # None => \E r \in RowsOf(u) : place = PlaceOf(r)
      BY DEF FetchLocationRecord
    <3> QED
      BY <2>1, <2>2, <3>2, <3>3, <3>4, <3>5 DEF PlaceOf, RowsOf
  <2>7. CASE LookForGet(t)
    BY <2>1, <2>2, <2>7 DEF LookForGet, Respond, Goto
  <2>8. CASE LookForDelete(t) \/ Remove(t)
    <3>1. call[t].op = "delete"
      BY <2>8 DEF LookForDelete, Remove, Respond, Goto
    <3>2. pc'[t] \in {"answer", "remove"}
      BY <2>8 DEF LookForDelete, Remove, Respond, Goto
    <3> QED
      BY <2>1, <2>2, <3>1, <3>2
  <2> QED
    BY <1>2, <1>3, <2>3, <2>4, <2>5, <2>6, <2>7, <2>8 DEF ThreadStep
<1> QED
  BY <1>1, <1>2, <1>3 DEF ThreadActs

LEMMA ReachStep == StoreInv /\ ReachInv /\ [Next]_vars => ReachInv'
<1> SUFFICES ASSUME StoreInv, ReachInv, [Next]_vars PROVE ReachInv'
  OBVIOUS
<1>1. CASE UNCHANGED vars
  BY <1>1 DEF vars, ReachInv, AloneInv, UpdateReachesEveryRow, RowsOf
<1>2. ASSUME NEW t \in Threads, ThreadActs(t) PROVE ReachInv'
  <2>1. ASSUME NEW x \in Threads, alone'[x], call'[x] # None
        PROVE  /\ \A y \in Threads \ {x} : call'[y] = None \/ call'[y].user # call'[x].user
               /\ pc'[x] = "write" =>
                     IF found'[x] THEN RowsOf(call[x].user)' # {}
                     ELSE RowsOf(call[x].user)' = {} \/ hidden'[call'[x].user] > 0
               /\ pc'[x] = "reload" /\ (found'[x] \/ hidden'[call'[x].user] = 0) =>
                     \A r \in RowsOf(call[x].user)' : r.at = call'[x].at
               /\ pc'[x] = "answer" /\ call'[x].op = "update"
                     /\ (\/ answer'[x].status = 200
                         \/ answer'[x].status = 201 /\ hidden'[call'[x].user] = 0) =>
                     \A r \in RowsOf(call[x].user)' :
                        r.at = call'[x].at /\ answer'[x].place.at = r.at
    <3>1. CASE x = t
      BY <1>2, <2>1, <3>1, ReachOwn DEF RowsOf
    <3>2. CASE x # t
      <4>1. /\ alone[x] /\ call[x] # None
            /\ pc'[x] = pc[x] /\ call'[x] = call[x] /\ found'[x] = found[x]
            /\ answer'[x] = answer[x]
            /\ call'[t] = None \/ call'[t].user # call[x].user
            /\ RowsOf(call[x].user)' = RowsOf(call[x].user)
            /\ hidden'[call[x].user] = 0 => hidden[call[x].user] = 0
        BY <1>2, <2>1, <3>2, ReachOthers
      <4>2. \A y \in Threads \ {x} : call'[y] = None \/ call'[y].user # call'[x].user
        <5>1. \A y \in Threads \ {t} : call'[y] = call[y]
          BY <1>2, OthersStay
        <5> QED
          BY <4>1, <5>1 DEF ReachInv, AloneInv
      <4>3. hidden[call[x].user] \in Nat /\ hidden'[call[x].user] \in Nat
        <5>1. call[x] \in Call
          BY <4>1 DEF StoreInv, TypeOK
        <5>2. call[x].user \in Users
          BY <5>1 DEF Call
        <5>3. StoreInv'
          BY StoreStep
        <5> QED
          BY <5>2, <5>3, StoreAssumption DEF StoreInv, TypeOK
      <4>4. RowsOf(call[x].user)' = {} <=> RowsOf(call[x].user) = {}
        BY <4>1
      <4>5. hidden[call[x].user] > 0 => hidden'[call[x].user] > 0
        BY <4>1, <4>3
      <4> QED
        BY <4>1, <4>2, <4>4, <4>5 DEF ReachInv, AloneInv, UpdateReachesEveryRow
    <3> QED
      BY <3>1, <3>2
  <2>2. ASSUME NEW x \in Threads, pc'[x] \in {"write", "reload"} PROVE call'[x] # None
    <3>1. StoreInv'
      BY StoreStep
    <3> QED
      BY <2>2, <3>1 DEF StoreInv, TypeOK
  <2> QED
    BY <2>1, <2>2 DEF ReachInv, AloneInv, UpdateReachesEveryRow
<1> QED
  BY <1>1, <1>2, NextByThread

LEMMA StoreReach == Spec => []ReachInv
  BY ReachInit, ReachStep, StoreTyping, PTL DEF Spec

\* An update that nothing overlapped has reached every row of its user, also after
\* failed look-ups have given him several; only one answered as the first may not
\* have, and only of a user whose rows a failed look-up has hidden.
THEOREM UpdatesReachEveryRow == Spec => []UpdateReachesEveryRow
<1>1. ReachInv => UpdateReachesEveryRow
  BY DEF ReachInv
<1> QED
  BY <1>1, StoreReach, PTL

-----------------------------------------------------------------------------
(* The number of rows *)

LEMMA RowsCounted ==
  ASSUME StoreInv, NEW u
  PROVE  /\ IsFiniteSet(RowsOf(u)) /\ Cardinality(RowsOf(u)) \in Nat
         /\ IsFiniteSet(Inserting(u)) /\ Cardinality(Inserting(u)) \in Nat
         /\ Cardinality(Inserting(u)) <= Cardinality(Threads)
         /\ Cardinality(Threads) \in Nat
<1>1. RowsOf(u) \in SUBSET rows /\ Inserting(u) \in SUBSET Threads
  BY DEF RowsOf, Inserting
<1>2. IsFiniteSet(rows) /\ IsFiniteSet(Threads)
  BY StoreAssumption DEF StoreInv, StepsTyped
<1> QED
  BY <1>1, <1>2, FS_Subset, FS_CardinalityType

\* A thread that inserts has looked the user up and found nothing, or nothing was
\* shown to it and that was counted.
LEMMA InsertersLooked ==
  ASSUME StoreInv, NEW t \in Threads, ThreadActs(t), NEW u \in Users
  PROVE  \/ Inserting(u)' \subseteq Inserting(u) \ {t} /\ hidden[u] <= hidden'[u]
         \/ RowsOf(u)' = {}
         \/ /\ RowsOf(u)' = RowsOf(u) /\ Inserting(u)' \subseteq Inserting(u) \cup {t}
            /\ hidden'[u] = hidden[u] + 1
<1>1. \A x \in Threads \ {t} : pc'[x] = pc[x] /\ call'[x] = call[x] /\ found'[x] = found[x]
  BY OthersStay
<1>2. CASE t \notin Inserting(u)'
  <2>1. Inserting(u)' \subseteq Inserting(u) \ {t}
    BY <1>1, <1>2 DEF Inserting
  <2> QED
    BY <2>1, HiddenCounts
<1>3. CASE t \in Inserting(u)'
  <2>1. pc'[t] = "write" /\ ~found'[t] /\ call'[t].user = u
    BY <1>3 DEF Inserting
  <2>2. LookForUpdate(t)
    <3> USE DEF StoreInv, TypeOK, Goto, Respond
    <3>1. ~(Persist(t) \/ FailToPersist(t) \/ Reload(t) \/ LookForGet(t))
      BY <2>1 DEF Persist, FailToPersist, Reload, LookForGet
    <3>2. ~(LookForDelete(t) \/ Remove(t) \/ Reply(t) \/ Refuse(t))
      BY <2>1 DEF LookForDelete, Remove, Reply, Refuse
    <3>3. ~ \E c \in Call : Accept(t, c)
      BY <2>1 DEF Accept
    <3>4. ~ \E centre \in Centres, radius \in Radii : FindNearby(t, centre, radius)
      BY <2>1 DEF FindNearby
    <3> QED
      BY <3>1, <3>2, <3>3, <3>4 DEF ThreadActs, ThreadStep
  <2>3. call' = call /\ rows' = rows /\ call[t].user = u
    BY <2>1, <2>2 DEF LookForUpdate
  <2>4. RowsOf(u)' = RowsOf(u)
    BY <2>3 DEF RowsOf
  <2>5. PICK place \in FetchLocationRecord(u) :
           /\ found'[t] = (place # None)
           /\ Misread(u, place) => hidden' = [hidden EXCEPT ![u] = @ + 1]
    BY <2>2, <2>3 DEF LookForUpdate, StoreInv, TypeOK
  <2>6. Misread(u, place) => hidden'[u] = hidden[u] + 1
    BY <2>5 DEF StoreInv, TypeOK
  <2>7. Inserting(u)' \subseteq Inserting(u) \cup {t}
    BY <1>1 DEF Inserting
  <2> QED
    BY <2>1, <2>4, <2>5, <2>6, <2>7 DEF Misread
<1> QED
  BY <1>2, <1>3

\* What a step does to the rows of a user.
LEMMA RowsChange ==
  ASSUME StoreInv, NEW t \in Threads, ThreadActs(t), NEW u \in Users
  PROVE  \/ Cardinality(RowsOf(u)') <= Cardinality(RowsOf(u))
         \/ /\ t \in Inserting(u)
            /\ Cardinality(RowsOf(u)') <= Cardinality(RowsOf(u)) + 1
<1>0. /\ IsFiniteSet(RowsOf(u)) /\ Cardinality(RowsOf(u)) \in Nat
  BY RowsCounted
<1>1. CASE rows' = rows
  <2>1. RowsOf(u)' = RowsOf(u)
    BY <1>1 DEF RowsOf
  <2> QED
    BY <1>0, <2>1
<1>2. CASE Remove(t)
  <2>1. RowsOf(u)' \in SUBSET RowsOf(u)
    BY <1>2 DEF Remove, Executed, RowsOf
  <2> QED
    BY <1>0, <2>1, FS_Subset
<1>3. CASE Persist(t) /\ rows' # rows
  <2>1. rows \subseteq Row /\ IsFiniteSet(rows) /\ call[t] \in Updates /\ pc[t] = "write"
    BY <1>3 DEF Persist, Goto, StoreInv, StepsTyped, TypeOK, Row
  <2>2. CASE found[t]
    <3>1. rows' = Update(call[t])
      BY <1>3, <2>2 DEF Persist, Executed
    <3>2. RowsOf(u)' = {s \in Update(call[t]) : s.user = u}
      BY <3>1 DEF RowsOf
    <3> QED
      BY <2>1, <3>2, Updated
  <2>3. CASE ~found[t]
    <3>1. rows' = Insert(call[t])
      BY <1>3, <2>3 DEF Persist, Executed
    <3>2. PICK r \in Row : rows' = rows \cup {r} /\ r.user = call[t].user
      BY <2>1, <3>1, Inserted
    <3>3. CASE call[t].user # u
      <4>1. RowsOf(u)' = RowsOf(u)
        BY <3>2, <3>3 DEF RowsOf
      <4> QED
        BY <1>0, <4>1
    <3>4. CASE call[t].user = u
      <4>1. RowsOf(u)' = RowsOf(u) \cup {r}
        BY <3>2, <3>4 DEF RowsOf
      <4>2. Cardinality(RowsOf(u)') <= Cardinality(RowsOf(u)) + 1
        BY <1>0, <4>1, FS_AddElement, SMTT(30)
      <4> QED
        BY <2>1, <2>3, <3>4, <4>2 DEF Inserting
    <3> QED
      BY <3>3, <3>4
  <2> QED
    BY <2>2, <2>3
<1> QED
  BY <1>1, <1>2, <1>3, OthersRowsStay

LEMMA BoundStep == StoreInv /\ RowsBounded /\ [Next]_vars => RowsBounded'
<1> SUFFICES ASSUME StoreInv, RowsBounded, [Next]_vars, NEW u \in Users
             PROVE  Cardinality(RowsOf(u)') + Cardinality(Inserting(u)')
                       <= Cardinality(Threads) + hidden'[u]
  BY DEF RowsBounded
<1> DEFINE n == Cardinality(RowsOf(u))
           m == Cardinality(Inserting(u))
           n2 == Cardinality(RowsOf(u)')
           m2 == Cardinality(Inserting(u)')
           all == Cardinality(Threads)
           h == hidden[u]
           h2 == hidden'[u]
<1>1. StoreInv'
  BY StoreStep
<1>2. /\ n \in Nat /\ m \in Nat /\ all \in Nat /\ n + m <= all + h
      /\ IsFiniteSet(Inserting(u))
  BY RowsCounted DEF RowsBounded
<1>3. IsFiniteSet(RowsOf(u)') /\ IsFiniteSet(Inserting(u)') /\ Inserting(u)' \in SUBSET Threads
  <2>1. IsFiniteSet(rows') /\ IsFiniteSet(Threads)
    BY <1>1, StoreAssumption DEF StoreInv, StepsTyped
  <2>2. RowsOf(u)' \in SUBSET rows' /\ Inserting(u)' \in SUBSET Threads
    BY DEF RowsOf, Inserting
  <2> QED
    BY <2>1, <2>2, FS_Subset
<1>4. n2 \in Nat /\ m2 \in Nat /\ m2 <= all
  BY <1>3, FS_CardinalityType, FS_Subset, StoreAssumption
<1>5. CASE UNCHANGED vars
  <2>1. RowsOf(u)' = RowsOf(u) /\ Inserting(u)' = Inserting(u) /\ h2 = h
    BY <1>5 DEF vars, RowsOf, Inserting
  <2> QED
    BY <1>2, <2>1
<1>6. ASSUME NEW t \in Threads, ThreadActs(t) PROVE n2 + m2 <= all + h2
  <2>0. h \in Nat /\ h2 \in Nat /\ h <= h2
    BY <1>6, HiddenCounts
  <2>1. CASE RowsOf(u)' = {}
    <3>1. n2 = 0
      BY <2>1, FS_EmptySet
    <3> HIDE DEF n, m, n2, m2, all, h, h2
    <3> QED
      BY <1>2, <1>4, <2>0, <3>1
  <2>2. CASE Inserting(u)' \subseteq Inserting(u) \ {t}
    <3>1. IsFiniteSet(Inserting(u) \ {t})
          /\ Cardinality(Inserting(u) \ {t}) = IF t \in Inserting(u) THEN m - 1 ELSE m
      BY <1>2, FS_RemoveElement
    <3>2. m2 <= Cardinality(Inserting(u) \ {t})
      BY <2>2, <3>1, FS_Subset
    <3>3. n2 <= n \/ (t \in Inserting(u) /\ n2 <= n + 1)
      BY <1>6, RowsChange
    <3> HIDE DEF n, m, n2, m2, all, h, h2
    <3> QED
      BY <1>2, <1>4, <2>0, <3>1, <3>2, <3>3
  <2>3. CASE /\ RowsOf(u)' = RowsOf(u) /\ Inserting(u)' \subseteq Inserting(u) \cup {t}
             /\ h2 = h + 1
    <3>1. IsFiniteSet(Inserting(u) \cup {t})
          /\ Cardinality(Inserting(u) \cup {t}) = IF t \in Inserting(u) THEN m ELSE m + 1
      BY <1>2, FS_AddElement
    <3>2. m2 <= Cardinality(Inserting(u) \cup {t})
      BY <2>3, <3>1, FS_Subset
    <3>3. n2 = n
      BY <2>3
    <3> HIDE DEF n, m, n2, m2, all, h, h2
    <3> QED
      BY <1>2, <1>4, <2>0, <2>3, <3>1, <3>2, <3>3
  <2> QED
    BY <1>6, <2>1, <2>2, <2>3, InsertersLooked
<1> QED
  BY <1>5, <1>6, NextByThread

\* However first updates race and look-ups fail, a user never has more rows than
\* there are worker threads and failed look-ups of updates about him.
THEOREM RowsStayBounded == Spec => []RowsBounded
<1>1. Init => RowsBounded
  <2> SUFFICES ASSUME Init, NEW u \in Users
               PROVE  Cardinality(RowsOf(u)) + Cardinality(Inserting(u))
                         <= Cardinality(Threads) + hidden[u]
    BY DEF RowsBounded
  <2>1. RowsOf(u) = {} /\ Inserting(u) = {}
    BY DEF Init, RowsOf, Inserting
  <2>2. Cardinality(Threads) \in Nat /\ hidden[u] = 0
    BY StoreAssumption, FS_CardinalityType DEF Init
  <2>3. Cardinality(RowsOf(u)) = 0 /\ Cardinality(Inserting(u)) = 0
    BY <2>1, FS_EmptySet
  <2> QED
    BY <2>2, <2>3
<1> QED
  BY <1>1, BoundStep, StoreTyping, PTL DEF Spec

-----------------------------------------------------------------------------
(* The directory *)

OneRow(u) == \A r, s \in RowsOf(u) : r = s

\* A call of a user nobody doubts is the only one about him, and what it has looked up
\* still is so.
SureCall(t) ==
    /\ \A x \in Threads \ {t} : call[x] = None \/ call[x].user # call[t].user
    /\ pc[t] = "write" => (found[t] <=> RowsOf(call[t].user) # {})
    /\ pc[t] \in {"reload", "remove"} => RowsOf(call[t].user) # {}

DirectoryInv ==
    /\ database = "mysql" => \A r \in rows : r.user \in riders
    /\ \A u \in Users : Doubtful(u) \/ OneRow(u)
    /\ \A t \in Threads : call[t] # None =>
          /\ Doubtful(call[t].user) \/ SureCall(t)
          /\ pc[t] = "answer" => answer[t] # None
    /\ \A t \in Threads : pc[t] # "answer" => answer[t] = None

LEMMA AnswersAreSome == \A status \in Nat, place \in Place \cup {None} : Answer(status, place) # None
  BY StoreAssumption DEF Answer

LEMMA PlacesAreSome ==
  ASSUME StoreInv, NEW r \in rows
  PROVE  PlaceOf(r) \in Place /\ PlaceOf(r) # None /\ PlaceOf(r) # Unsure
<1>1. PlaceOf(r) \in Place
  BY DEF StoreInv, TypeOK, PlaceOf, Place
<1> QED
  BY <1>1, StoreAssumption

LEMMA CallsHaveUsers ==
  ASSUME StoreInv, NEW t \in Threads, call[t] # None
  PROVE  call[t] \in Call /\ call[t].user \in Users
<1>1. call[t] \in Call
  BY DEF StoreInv, TypeOK
<1> QED
  BY <1>1 DEF Call

LEMMA DoubtsGrow ==
  ASSUME StoreInv, NEW t \in Threads, ThreadActs(t)
  PROVE  /\ database' = database /\ riders' = riders
         /\ doubted \subseteq doubted'
         /\ \A u : Doubtful(u) => Doubtful(u)'
<1>1. database' = database /\ riders' = riders /\ doubted \subseteq doubted'
  BY DEF ThreadActs, ThreadStep, LookForUpdate, Persist, FailToPersist, Reload, LookForGet,
         LookForDelete, Remove, Reply, Refuse, Accept, FindNearby, NoteMisread
<1> QED
  BY <1>1 DEF Doubtful

\* A look-up that casts no doubt on the user has read what is there.
LEMMA ReadRight ==
  ASSUME StoreInv, NEW u, u \notin doubted', NEW place \in FetchLocationRecord(u),
         NoteMisread(u, place)
  PROVE  /\ place = None <=> RowsOf(u) = {}
         /\ place # None => \E r \in RowsOf(u) : place = PlaceOf(r)
         /\ doubted' = doubted
<1>1. ~Misread(u, place)
  BY DEF NoteMisread
<1>2. \A r \in RowsOf(u) : PlaceOf(r) # None
  BY PlacesAreSome DEF RowsOf
<1> QED
  BY <1>1, <1>2 DEF Misread, NoteMisread, FetchLocationRecord

LEMMA RowsElsewhere ==
  ASSUME StoreInv, NEW t \in Threads, ThreadActs(t), NEW u, call[t] = None \/ call[t].user # u
  PROVE  RowsOf(u)' = RowsOf(u)
<1>1. rows' # rows => call[t] # None
  BY OthersRowsStay DEF Persist, Remove, Respond, Goto, StoreInv, TypeOK
<1>2. CASE rows' = rows
  BY <1>2 DEF RowsOf
<1>3. CASE rows' # rows
  BY <1>1, <1>3, OthersRowsStay
<1> QED
  BY <1>2, <1>3

\* The step of another thread finds a sure call as it was.
LEMMA SureOthers ==
  ASSUME StoreInv, DirectoryInv, NEW t \in Threads, ThreadActs(t), NEW x \in Threads, x # t,
         call[x] # None, NEW u, u = call[x].user, ~Doubtful(u)
  PROVE  /\ call[t] = None \/ call[t].user # u
         /\ RowsOf(u)' = RowsOf(u)
<1>1. call[t] = None \/ call[t].user # u
  BY DEF DirectoryInv, SureCall
<1> QED
  BY <1>1, RowsElsewhere

LEMMA SureOthersStay ==
  ASSUME StoreInv, DirectoryInv, NEW t \in Threads, ThreadActs(t), NEW x \in Threads, x # t,
         call[x] # None, NEW u, u = call[x].user, ~Doubtful(u)'
  PROVE  SureCall(x)'
<1>1. /\ pc'[x] = pc[x] /\ call'[x] = call[x] /\ found'[x] = found[x]
  BY OthersStay
<1>2. ~Doubtful(u)
  BY DoubtsGrow
<1>3. /\ call[t] = None \/ call[t].user # u
      /\ RowsOf(u)' = RowsOf(u)
  BY <1>2, SureOthers
<1>4. SureCall(x)
  BY <1>2 DEF DirectoryInv
<1>5. call'[t] = None \/ call'[t].user # u
  <2>1. CASE call'[t] = call[t] \/ call'[t] = None
    BY <1>3, <2>1
  <2>2. CASE \E c \in Call : Accept(t, c)
    <3>1. PICK c \in Call : Accept(t, c)
      BY <2>2
    <3>2. call'[t] = c /\ (x \in About(c.user) => c.user \in doubted')
      BY <3>1 DEF Accept, StoreInv, TypeOK
    <3> QED
      BY <3>2 DEF About, Doubtful
  <2> QED
    BY <2>1, <2>2 DEF ThreadActs, ThreadStep, LookForUpdate, Persist, FailToPersist, Reload,
       LookForGet, LookForDelete, Remove, Reply, Refuse, FindNearby, StoreInv, TypeOK
<1>6. \A y \in Threads \ {x} : call'[y] = None \/ call'[y].user # u
  <2>1. \A y \in Threads \ {t} : call'[y] = call[y]
    BY OthersStay
  <2> QED
    BY <1>4, <1>5, <2>1 DEF SureCall
<1>7. RowsOf(call[x].user)' = RowsOf(u)
  BY <1>1, <1>3 DEF RowsOf
<1> QED
  BY <1>1, <1>4, <1>6, <1>7 DEF SureCall

\* What the UPDATE of a single row leaves.
LEMMA UpdatedOne ==
  ASSUME StoreInv, NEW t \in Threads, call[t] \in Updates, NEW u, u = call[t].user,
         OneRow(u), NEW r \in RowsOf(u), rows' = Update(call[t])
  PROVE  \E s \in Row :
            /\ RowsOf(u)' = {s} /\ s.user = u /\ s.at = call[t].at
            /\ s.name = IF call[t].name = None THEN r.name ELSE call[t].name
<1> DEFINE c == call[t]
           s == [r EXCEPT !.at = c.at, !.name = IF c.name = None THEN @ ELSE c.name]
<1>1. r \in Row /\ r.user = u /\ r \in rows
  BY DEF StoreInv, TypeOK, Row, RowsOf
<1>2. /\ s \in Row /\ s.user = u /\ s.at = c.at
      /\ s.name = IF c.name = None THEN r.name ELSE c.name
  BY <1>1 DEF Row, Updates
<1>3. \A q \in rows : q.user = u => q = r
  BY DEF OneRow, RowsOf
<1>4. \A q \in rows' : q.user = u => q = s
  BY <1>3 DEF Update
<1>5. s \in rows'
  BY <1>1 DEF Update
<1> HIDE DEF s
<1>6. RowsOf(u)' = {s}
  BY <1>2, <1>4, <1>5 DEF RowsOf
<1> QED
  BY <1>2, <1>6

\* What the INSERT of a first row leaves.
LEMMA InsertedOne ==
  ASSUME StoreInv, NEW t \in Threads, call[t] \in Updates, NEW u, u = call[t].user,
         RowsOf(u) = {}, rows' = Insert(call[t])
  PROVE  \E s \in Row :
            /\ RowsOf(u)' = {s} /\ s.user = u /\ s.at = call[t].at
            /\ s.name = IF call[t].name = None THEN Null ELSE call[t].name
<1> DEFINE c == call[t]
           key == CHOOSE k \in 1 .. Cardinality(rows) + 1 : \A r \in rows : r.id # k
           s == [id |-> key, user |-> c.user, at |-> c.at,
                 name |-> IF c.name = None THEN Null ELSE c.name]
<1>1. key \in Nat \ {0}
  <2>1. key \in 1 .. Cardinality(rows) + 1
    BY KeyIsFree DEF StoreInv, StepsTyped
  <2>2. Cardinality(rows) \in Nat
    BY FS_CardinalityType DEF StoreInv, StepsTyped
  <2> HIDE DEF key
  <2> QED
    BY <2>1, <2>2
<1>2. rows' = rows \cup {s}
  BY DEF Insert
<1> HIDE DEF key
<1>3. /\ s \in Row /\ s.user = u /\ s.at = c.at
      /\ s.name = IF c.name = None THEN Null ELSE c.name
  BY <1>1 DEF Row, Updates
<1> HIDE DEF s
<1>4. RowsOf(u)' = {s}
  BY <1>2, <1>3 DEF RowsOf
<1> QED
  BY <1>3, <1>4

\* t's update leaves the one row s of its user u.
LeavesRow(t, u, s) ==
    /\ RowsOf(u)' = {s} /\ s.user = u /\ s.at = call[t].at
    /\ \/ /\ found[t]
          /\ \E r \in Row :
                /\ RowsOf(u) = {r}
                /\ s.name = IF call[t].name = None THEN r.name ELSE call[t].name
       \/ /\ ~found[t] /\ RowsOf(u) = {}
          /\ s.name = IF call[t].name = None THEN Null ELSE call[t].name

LEMMA SurePersist ==
  ASSUME StoreInv, DirectoryInv, NEW t \in Threads, Persist(t),
         NEW u, u = call[t].user, ~Doubtful(u)
  PROVE  /\ call[t] \in Updates /\ u \in riders
         /\ \E s \in Row : LeavesRow(t, u, s)
<1>1. /\ pc[t] = "write" /\ call[t] \in Updates /\ call[t] # None /\ u \in Users
  <2>1. pc[t] = "write" /\ call[t] \in Updates /\ call[t] # None
    BY DEF Persist, Goto, StoreInv, StepsTyped, TypeOK
  <2> QED
    BY <2>1 DEF Updates
<1>2. SureCall(t) /\ OneRow(u) /\ database = "mysql"
  BY <1>1, StoreAssumption DEF DirectoryInv, Doubtful, StoreInv, TypeOK
<1>3. found[t] <=> RowsOf(u) # {}
  BY <1>1, <1>2 DEF SureCall
<1>4. rows' = IF found[t] THEN Update(call[t]) ELSE Insert(call[t])
  BY <1>2 DEF Persist, Executed
<1>5. CASE found[t]
  <2>1. PICK r \in RowsOf(u) : TRUE
    BY <1>3, <1>5
  <2>2. r \in rows /\ r.user = u /\ r \in Row /\ RowsOf(u) = {r}
    BY <1>2, <2>1 DEF RowsOf, OneRow, StoreInv, TypeOK, Row
  <2>3. u \in riders
    BY <1>2, <2>2 DEF DirectoryInv
  <2>4. PICK s \in Row :
            /\ RowsOf(u)' = {s} /\ s.user = u /\ s.at = call[t].at
            /\ s.name = IF call[t].name = None THEN r.name ELSE call[t].name
    BY <1>1, <1>2, <1>4, <1>5, <2>1, UpdatedOne
  <2> QED
    BY <1>1, <1>5, <2>2, <2>3, <2>4 DEF LeavesRow
<1>6. CASE ~found[t]
  <2>1. u \in riders
    BY <1>2, <1>6 DEF Persist
  <2>2. PICK s \in Row :
            /\ RowsOf(u)' = {s} /\ s.user = u /\ s.at = call[t].at
            /\ s.name = IF call[t].name = None THEN Null ELSE call[t].name
    BY <1>1, <1>3, <1>4, <1>6, InsertedOne
  <2> QED
    BY <1>1, <1>3, <1>6, <2>1, <2>2 DEF LeavesRow
<1> QED
  BY <1>5, <1>6

LEMMA RidersOwnRows ==
  ASSUME StoreInv, DirectoryInv, NEW t \in Threads, ThreadActs(t), database' = "mysql",
         NEW r \in rows'
  PROVE  r.user \in riders'
<1>1. database = "mysql" /\ riders' = riders /\ \A s \in rows : s.user \in riders
  BY DoubtsGrow DEF DirectoryInv
<1>2. CASE rows' = rows
  BY <1>1, <1>2
<1>3. CASE Persist(t)
  <2>1. rows \subseteq Row /\ IsFiniteSet(rows) /\ call[t] \in Updates
    BY <1>3 DEF Persist, Goto, StoreInv, StepsTyped, TypeOK, Row
  <2>2. CASE found[t]
    <3>1. rows' = Update(call[t])
      BY <1>1, <1>3, <2>2 DEF Persist, Executed
    <3>2. \E s \in rows : r.user = s.user
      BY <2>1, <3>1 DEF Update, Row
    <3> QED
      BY <1>1, <3>2
  <2>3. CASE ~found[t]
    <3>1. rows' = Insert(call[t]) /\ call[t].user \in riders
      BY <1>1, <1>3, <2>3 DEF Persist, Executed
    <3> QED
      BY <1>1, <2>1, <3>1, Inserted
  <2> QED
    BY <2>2, <2>3
<1>4. CASE Remove(t)
  BY <1>1, <1>4 DEF Remove, Executed
<1> QED
  BY <1>2, <1>3, <1>4, OthersRowsStay

LEMMA RowsStaySingle ==
  ASSUME StoreInv, DirectoryInv, NEW t \in Threads, ThreadActs(t), NEW u \in Users,
         ~Doubtful(u)'
  PROVE  OneRow(u)'
<1>1. ~Doubtful(u) /\ OneRow(u)
  BY DoubtsGrow DEF DirectoryInv
<1>2. CASE RowsOf(u)' = RowsOf(u)
  BY <1>1, <1>2 DEF OneRow
<1>3. CASE Persist(t) /\ call[t].user = u
  <2>1. \E s : RowsOf(u)' = {s}
    <3>1. \E s \in Row : LeavesRow(t, u, s)
      BY <1>1, <1>3, SurePersist
    <3> QED
      BY <3>1 DEF LeavesRow
  <2> QED
    BY <2>1 DEF OneRow
<1>4. CASE Remove(t)
  <2>1. RowsOf(u)' \subseteq RowsOf(u)
    BY <1>4 DEF Remove, Executed, RowsOf
  <2> QED
    BY <1>1, <2>1 DEF OneRow
<1>5. rows' = rows => RowsOf(u)' = RowsOf(u)
  BY DEF RowsOf
<1> QED
  BY <1>2, <1>3, <1>4, <1>5, OthersRowsStay, RowsElsewhere

LEMMA AnswersMade ==
  ASSUME StoreInv, DirectoryInv, NEW t \in Threads, ThreadActs(t)
  PROVE  /\ call'[t] # None /\ pc'[t] = "answer" => answer'[t] # None
         /\ pc'[t] # "answer" => answer'[t] = None
<1> USE DEF Goto, Respond, StoreInv, StepsTyped, TypeOK
<1>0. pc[t] # "answer" => answer[t] = None
  BY DEF DirectoryInv
<1>1. CASE LookForUpdate(t) \/ Persist(t) \/ Reply(t) \/ \E c \in Call : Accept(t, c)
  BY <1>0, <1>1 DEF LookForUpdate, Persist, Reply, Accept
<1>2. CASE FailToPersist(t) \/ Remove(t) \/ LookForDelete(t)
  <2>1. \/ pc'[t] = "remove" /\ answer'[t] = answer[t] /\ pc[t] = "look"
        \/ pc'[t] = "answer" /\ \E status \in Nat : answer'[t] = Answer(status, None)
    BY <1>2 DEF FailToPersist, Remove, LookForDelete
  <2> QED
    BY <1>0, <2>1, AnswersAreSome
<1>3. CASE Reload(t) \/ LookForGet(t)
  <2>1. PICK place \in FetchLocationRecord(call[t].user), status \in Nat :
           pc'[t] = "answer" /\ answer'[t] = Answer(status, place)
    BY <1>3 DEF Reload, LookForGet
  <2>2. place \in Place \cup {None}
    BY <2>1, PlacesAreSome DEF FetchLocationRecord, RowsOf
  <2> QED
    BY <2>1, <2>2, AnswersAreSome
<1>4. CASE Refuse(t) \/ \E centre \in Centres, radius \in Radii : FindNearby(t, centre, radius)
  BY <1>4 DEF Refuse, FindNearby
<1> QED
  BY <1>1, <1>2, <1>3, <1>4 DEF ThreadActs, ThreadStep

\* What a thread's own step has looked up is so.
LEMMA SureOwn ==
  ASSUME StoreInv, DirectoryInv, NEW t \in Threads, ThreadActs(t), call'[t] # None,
         NEW u, u = call'[t].user, ~Doubtful(u)'
  PROVE  SureCall(t)'
<1> USE DEF Goto, Respond, StoreInv, TypeOK
<1>1. CASE \E c \in Call : Accept(t, c)
  <2>1. PICK c \in Call : Accept(t, c)
    BY <1>1
  <2>2. /\ pc'[t] = "look" /\ call'[t] = c
        /\ \A x \in Threads \ {t} : call'[x] = call[x]
    BY <2>1 DEF Accept
  <2>3. About(c.user) = {}
    BY <2>1, <2>2 DEF Accept, Doubtful
  <2> QED
    BY <2>2, <2>3 DEF SureCall, About
<1>2. CASE Refuse(t) \/ Reply(t)
           \/ \E centre \in Centres, radius \in Radii : FindNearby(t, centre, radius)
  BY <1>2 DEF Refuse, Reply, FindNearby
<1>3. CASE ThreadStep(t) /\ ~Reply(t)
  <2>1. call' = call /\ call[t] # None /\ u = call[t].user
    BY <1>3 DEF ThreadStep, LookForUpdate, Persist, FailToPersist, Reload, LookForGet,
                LookForDelete, Remove
  <2>2. ~Doubtful(u)
    BY DoubtsGrow
  <2>3. SureCall(t)
    BY <2>1, <2>2 DEF DirectoryInv
  <2>4. \A x \in Threads \ {t} : call'[x] = None \/ call'[x].user # u
    BY <2>1, <2>3 DEF SureCall
  <2>5. /\ pc'[t] = "write" => (found'[t] <=> RowsOf(u)' # {})
        /\ pc'[t] \in {"reload", "remove"} => RowsOf(u)' # {}
    <3>0. u \notin doubted'
      BY DEF Doubtful
    <3>1. CASE LookForUpdate(t)
      <4>1. PICK place \in FetchLocationRecord(u) :
               found'[t] = (place # None) /\ NoteMisread(u, place)
        BY <2>1, <3>1 DEF LookForUpdate
      <4>2. place = None <=> RowsOf(u) = {}
        BY <3>0, <4>1, ReadRight
      <4> QED
        BY <3>1, <4>1, <4>2 DEF LookForUpdate, RowsOf
    <3>2. CASE Persist(t)
      <4>1. pc'[t] = "reload" /\ \E s \in Row : LeavesRow(t, u, s)
        BY <2>1, <2>2, <3>2, SurePersist DEF Persist
      <4> QED
        BY <4>1 DEF LeavesRow
    <3>3. CASE LookForDelete(t)
      <4>1. PICK place \in FetchLocationRecord(u) :
               /\ place = None => pc'[t] = "answer"
               /\ place # None => pc'[t] = "remove"
        BY <2>1, <3>3 DEF LookForDelete
      <4>2. pc'[t] = "remove" => RowsOf(u) # {}
        BY <4>1 DEF FetchLocationRecord
      <4> QED
        BY <3>3, <4>1, <4>2 DEF LookForDelete, RowsOf
    <3>4. CASE FailToPersist(t) \/ Reload(t) \/ LookForGet(t) \/ Remove(t)
      BY <3>4 DEF FailToPersist, Reload, LookForGet, Remove
    <3> QED
      BY <1>3, <3>1, <3>2, <3>3, <3>4 DEF ThreadStep
  <2>6. RowsOf(call[t].user)' = RowsOf(u)'
    BY <2>1 DEF RowsOf
  <2> QED
    BY <2>1, <2>4, <2>5, <2>6 DEF SureCall
<1> QED
  BY <1>1, <1>2, <1>3 DEF ThreadActs

LEMMA DirectoryInvInit == Init => DirectoryInv
  BY DEF Init, DirectoryInv, OneRow, RowsOf

LEMMA DirectoryInvStep == StoreInv /\ DirectoryInv /\ [Next]_vars => DirectoryInv'
<1> SUFFICES ASSUME StoreInv, DirectoryInv, [Next]_vars PROVE DirectoryInv'
  OBVIOUS
<1>1. CASE UNCHANGED vars
  BY <1>1 DEF vars, DirectoryInv, OneRow, SureCall, Doubtful, RowsOf
<1>2. ASSUME NEW t \in Threads, ThreadActs(t) PROVE DirectoryInv'
  <2>1. database' = "mysql" => \A r \in rows' : r.user \in riders'
    BY <1>2, RidersOwnRows
  <2>2. \A u \in Users : Doubtful(u)' \/ OneRow(u)'
    BY <1>2, RowsStaySingle
  <2>3. ASSUME NEW x \in Threads, call'[x] # None
        PROVE  /\ Doubtful(call[x].user)' \/ SureCall(x)'
               /\ pc'[x] = "answer" => answer'[x] # None
    <3>1. PICK u : u = call'[x].user
      OBVIOUS
    <3>2. Doubtful(call[x].user)' <=> Doubtful(u)'
      BY <3>1 DEF Doubtful
    <3>3. CASE x = t
      BY <1>2, <2>3, <3>1, <3>2, <3>3, SureOwn, AnswersMade
    <3>4. CASE x # t
      <4>1. pc'[x] = pc[x] /\ call'[x] = call[x] /\ answer'[x] = answer[x]
        BY <1>2, <3>4, OthersStay
      <4>2. Doubtful(u)' \/ SureCall(x)'
        BY <1>2, <2>3, <3>1, <3>4, <4>1, SureOthersStay
      <4> QED
        BY <2>3, <3>2, <4>1, <4>2 DEF DirectoryInv
    <3> QED
      BY <3>3, <3>4
  <2>4. ASSUME NEW x \in Threads, pc'[x] # "answer" PROVE answer'[x] = None
    <3>1. CASE x = t
      BY <1>2, <2>4, <3>1, AnswersMade
    <3>2. CASE x # t
      BY <1>2, <2>4, <3>2, OthersStay DEF DirectoryInv
    <3> QED
      BY <3>1, <3>2
  <2> QED
    BY <2>1, <2>2, <2>3, <2>4 DEF DirectoryInv
<1> QED
  BY <1>1, <1>2, NextByThread

LEMMA DirectoryInvariant == Spec => []DirectoryInv
  BY DirectoryInvInit, DirectoryInvStep, StoreTyping, PTL DEF Spec

\* What a user's place and a call's answer depend on.
LEMMA PlaceStays ==
  ASSUME NEW u, RowsOf(u)' = RowsOf(u), Doubtful(u)' <=> Doubtful(u)
  PROVE  StoredPlace(u)' = StoredPlace(u)
  BY DEF StoredPlace

LEMMA OneRowChosen ==
  ASSUME NEW S, NEW r, S = {r}
  PROVE  (CHOOSE s \in S : TRUE) = r /\ S # {}
  OBVIOUS

LEMMA PlaceSettled ==
  ASSUME NEW u, ~Doubtful(u)
  PROVE  /\ RowsOf(u) = {} => StoredPlace(u) = None
         /\ \A r : RowsOf(u) = {r} => StoredPlace(u) = PlaceOf(r)
<1>1. ASSUME NEW r, RowsOf(u) = {r} PROVE StoredPlace(u) = PlaceOf(r)
  BY <1>1, OneRowChosen DEF StoredPlace
<1> QED
  BY <1>1 DEF StoredPlace

LEMMA PlaceSettledNext ==
  ASSUME NEW u, ~Doubtful(u)'
  PROVE  /\ RowsOf(u)' = {} => StoredPlace(u)' = None
         /\ \A r : RowsOf(u)' = {r} => StoredPlace(u)' = PlaceOf(r)
<1>1. ASSUME NEW r, RowsOf(u)' = {r} PROVE StoredPlace(u)' = PlaceOf(r)
  <2>1. (CHOOSE s \in RowsOf(u)' : TRUE) = r
    BY <1>1, OneRowChosen
  <2> QED
    BY <1>1, <2>1 DEF StoredPlace, PlaceOf
<1> QED
  BY <1>1 DEF StoredPlace

\* A user nobody doubts has a place or none, and it is known.
LEMMA PlaceKnown ==
  ASSUME StoreInv, DirectoryInv, NEW u \in Users
  PROVE  StoredPlace(u) = Unsure <=> Doubtful(u)
<1>1. CASE Doubtful(u)
  BY <1>1 DEF StoredPlace
<1>2. CASE ~Doubtful(u) /\ RowsOf(u) = {}
  BY <1>2, PlaceSettled, StoreAssumption
<1>3. CASE ~Doubtful(u) /\ RowsOf(u) # {}
  <2>1. PICK r \in RowsOf(u) : RowsOf(u) = {r}
    BY <1>3 DEF DirectoryInv, OneRow
  <2> QED
    BY <1>3, <2>1, PlaceSettled, PlacesAreSome DEF RowsOf
<1> QED
  BY <1>1, <1>2, <1>3

LEMMA SettledDoubtful ==
  ASSUME NEW t, call[t] # None, Doubtful(call[t].user)
  PROVE  Settled(t) = Unsure
  BY DEF Settled

LEMMA SettledAnswer ==
  ASSUME NEW t, call[t] # None, ~Doubtful(call[t].user), pc[t] # "reload"
  PROVE  Settled(t) = answer[t]
  BY DEF Settled

LEMMA SettledNone ==
  ASSUME NEW t, call[t] = None, pc[t] # "reload"
  PROVE  Settled(t) = None
  BY DEF Settled

LEMMA SettledWrite ==
  ASSUME NEW t, call[t] # None, ~Doubtful(call[t].user), pc[t] = "reload",
         NEW r, RowsOf(call[t].user) = {r}
  PROVE  Settled(t) = Answer(IF found[t] THEN 200 ELSE 201, PlaceOf(r))
<1>1. (CHOOSE s \in RowsOf(call[t].user) : TRUE) = r
  BY OneRowChosen
<1> QED
  BY <1>1 DEF Settled

\* A call keeps what is settled about it when nothing it depends on changes.
LEMMA SettledStays ==
  ASSUME NEW t, pc'[t] = pc[t], call'[t] = call[t], found'[t] = found[t],
         answer'[t] = answer[t],
         pc[t] = "reload" => call[t] # None,
         call[t] # None => /\ Doubtful(call[t].user)' <=> Doubtful(call[t].user)
                           /\ ~Doubtful(call[t].user) =>
                                 RowsOf(call[t].user)' = RowsOf(call[t].user)
  PROVE  Settled(t)' = Settled(t)
<1>1. CASE call[t] = None
  BY <1>1 DEF Settled
<1>2. CASE call[t] # None /\ Doubtful(call[t].user)
  BY <1>2 DEF Settled
<1>3. CASE call[t] # None /\ ~Doubtful(call[t].user)
  BY <1>3 DEF Settled
<1> QED
  BY <1>1, <1>2, <1>3

\* A step of t changes no other call, nor the place of another user, unless it
\* casts a doubt on it.
LEMMA OthersSettled ==
  ASSUME StoreInv, DirectoryInv, NEW t \in Threads, ThreadActs(t), NEW x \in Threads, x # t
  PROVE  \/ Settled(x)' = Settled(x)
         \/ /\ call[x] # None /\ call'[x] = call[x]
            /\ ~Doubtful(call[x].user) /\ Doubtful(call[x].user)'
<1>1. /\ pc'[x] = pc[x] /\ call'[x] = call[x] /\ found'[x] = found[x] /\ answer'[x] = answer[x]
  BY OthersStay
<1>2. pc[x] = "reload" => call[x] # None
  BY DEF StoreInv, TypeOK
<1> DEFINE u == call[x].user
<1>3. PICK v : v = u
  OBVIOUS
<1>4. /\ Doubtful(u)' <=> Doubtful(v)'
      /\ RowsOf(u)' = RowsOf(v)'
  BY <1>1, <1>3 DEF Doubtful, RowsOf
<1>5. CASE call[x] = None
  BY <1>1, <1>2, <1>5, SettledStays
<1>6. CASE call[x] # None /\ Doubtful(u)
  <2>1. Doubtful(v)'
    BY <1>3, <1>6, DoubtsGrow
  <2> QED
    BY <1>1, <1>2, <1>4, <1>6, <2>1, SettledStays
<1>7. CASE call[x] # None /\ ~Doubtful(u)
  <2>1. RowsOf(v)' = RowsOf(v)
    BY <1>3, <1>7, SureOthers
  <2>2. CASE Doubtful(u)'
    BY <1>1, <1>7, <2>2
  <2>3. CASE ~Doubtful(u)'
    BY <1>1, <1>2, <1>3, <1>4, <1>7, <2>1, <2>3, SettledStays
  <2> QED
    BY <2>2, <2>3
<1> QED
  BY <1>5, <1>6, <1>7

\* A step of a call that casts no doubt touches its own user and its own answer.
LEMMA QuietStep ==
  ASSUME StoreInv, DirectoryInv, NEW t \in Threads, ThreadStep(t), ~Reply(t),
         doubted' = doubted
  PROVE  /\ riders' = riders /\ call' = call /\ call[t] # None
         /\ \A v : Doubtful(v)' <=> Doubtful(v)
         /\ \A v \in Users \ {call[t].user} : StoredPlace(v)' = StoredPlace(v)
         /\ \A x \in Threads \ {t} : Settled(x)' = Settled(x)
<1>0. ThreadActs(t)
  BY DEF ThreadActs
<1>1. call' = call /\ call[t] # None
  BY DEF ThreadStep, LookForUpdate, Persist, FailToPersist, Reload, LookForGet, LookForDelete,
         Remove, Goto, Respond, StoreInv, TypeOK
<1>2. riders' = riders /\ database' = database
  BY <1>0, DoubtsGrow
<1>3. ASSUME NEW v PROVE Doubtful(v)' <=> Doubtful(v)
  BY <1>2 DEF Doubtful
<1>4. ASSUME NEW v \in Users \ {call[t].user} PROVE StoredPlace(v)' = StoredPlace(v)
  <2>1. RowsOf(v)' = RowsOf(v)
    BY <1>0, <1>4, RowsElsewhere
  <2> QED
    BY <1>3, <2>1, PlaceStays
<1>5. ASSUME NEW x \in Threads \ {t} PROVE Settled(x)' = Settled(x)
  <2>1. Doubtful(call[x].user)' <=> Doubtful(call[x].user)
    BY <1>1, <1>2 DEF Doubtful
  <2> QED
    BY <1>0, <2>1, OthersSettled
<1> QED
  BY <1>1, <1>2, <1>3, <1>4, <1>5

LEMMA DirectoryStays ==
  ASSUME riders' = riders, call' = call,
         \A u \in Users : StoredPlace(u)' = StoredPlace(u),
         \A t \in Threads : Settled(t)' = Settled(t)
  PROVE  UNCHANGED Directory!directory
  BY DEF Directory!directory

\* Nothing is promised of a doubtful call, so nothing has to happen.
LEMMA DoubtfulStep ==
  ASSUME StoreInv, DirectoryInv, NEW t \in Threads, ThreadStep(t), ~Reply(t),
         doubted' = doubted, Doubtful(call[t].user)
  PROVE  UNCHANGED Directory!directory
<1>1. /\ riders' = riders /\ call' = call /\ call[t] # None
      /\ \A v : Doubtful(v)' <=> Doubtful(v)
      /\ \A v \in Users \ {call[t].user} : StoredPlace(v)' = StoredPlace(v)
      /\ \A x \in Threads \ {t} : Settled(x)' = Settled(x)
  BY QuietStep
<1>2. PICK u : u = call[t].user
  OBVIOUS
<1>3. Doubtful(u) /\ Doubtful(u)'
  BY <1>1, <1>2
<1>4. StoredPlace(u)' = StoredPlace(u)
  BY <1>3 DEF StoredPlace
<1>5. Settled(t)' = Settled(t)
  <2>1. Doubtful(call[t].user)'
    BY <1>1, <1>2, <1>3 DEF Doubtful
  <2> QED
    BY <1>1, <2>1 DEF Settled
<1> QED
  BY <1>1, <1>2, <1>4, <1>5, DirectoryStays

\* A step that settles nothing leaves the directory alone; one that settles the call
\* serves it.
LEMMA UnsettledStep ==
  ASSUME StoreInv, DirectoryInv, NEW t \in Threads, ThreadStep(t), ~Reply(t),
         doubted' = doubted, NEW u, u = call[t].user,
         StoredPlace(u)' = StoredPlace(u), Settled(t)' = Settled(t)
  PROVE  UNCHANGED Directory!directory
<1>1. /\ riders' = riders /\ call' = call
      /\ \A v \in Users \ {call[t].user} : StoredPlace(v)' = StoredPlace(v)
      /\ \A x \in Threads \ {t} : Settled(x)' = Settled(x)
  BY QuietStep
<1> QED
  BY <1>1, DirectoryStays

LEMMA SettlingStep ==
  ASSUME StoreInv, DirectoryInv, NEW t \in Threads, ThreadStep(t), ~Reply(t),
         doubted' = doubted, NEW u, u = call[t].user, NEW place, NEW status,
         StoredPlace(u)' = place, Settled(t)' = Answer(status, place)
  PROVE  Directory!Served(t, place, status)
<1>1. /\ call' = call
      /\ \A v \in Users \ {u} : StoredPlace(v)' = StoredPlace(v)
      /\ \A x \in Threads \ {t} : Settled(x)' = Settled(x)
  BY QuietStep
<1>2. [v \in Users |-> StoredPlace(v)'] = [[v \in Users |-> StoredPlace(v)] EXCEPT ![u] = place]
  BY <1>1
<1>3. [x \in Threads |-> Settled(x)']
         = [[x \in Threads |-> Settled(x)] EXCEPT ![t] = Answer(status, place)]
  BY <1>1
<1>4. Directory!Answer(status, place) = Answer(status, place)
  BY DEF Directory!Answer, Answer
<1> QED
  BY <1>1, <1>2, <1>3, <1>4 DEF Directory!Served

LEMMA SettledAnswerNext ==
  ASSUME NEW t, call'[t] # None, ~Doubtful(call[t].user)', pc'[t] # "reload"
  PROVE  Settled(t)' = answer'[t]
  BY DEF Settled

LEMMA SettledWriteNext ==
  ASSUME NEW t, call'[t] # None, ~Doubtful(call[t].user)', pc'[t] = "reload",
         NEW r, RowsOf(call[t].user)' = {r}
  PROVE  Settled(t)' = Answer(IF found'[t] THEN 200 ELSE 201, PlaceOf(r))
<1>1. (CHOOSE s \in RowsOf(call[t].user)' : TRUE) = r
  BY OneRowChosen
<1> QED
  BY <1>1 DEF Settled, Answer, PlaceOf

\* What holds of a sure call before a step of its own, and of its user after it.
LEMMA SureStep ==
  ASSUME StoreInv, DirectoryInv, NEW t \in Threads, ThreadStep(t), ~Reply(t),
         doubted' = doubted, NEW u, u = call[t].user, ~Doubtful(u)
  PROVE  /\ call[t] # None /\ call' = call /\ u \in Users /\ call[t] \in Call
         /\ SureCall(t) /\ OneRow(u)
         /\ ~Doubtful(u)' /\ ~Doubtful(call[t].user)'
         /\ RowsOf(call[t].user)' = RowsOf(u)'
         /\ StoredPlace(u) # Unsure
         /\ pc[t] \notin {"reload", "answer"} => Settled(t) = None
<1>1. /\ call[t] # None /\ call' = call
      /\ \A v : Doubtful(v)' <=> Doubtful(v)
  BY QuietStep
<1>2. u \in Users /\ call[t] \in Call
  BY <1>1, CallsHaveUsers
<1>3. SureCall(t) /\ OneRow(u) /\ (pc[t] # "answer" => answer[t] = None)
  BY <1>1, <1>2 DEF DirectoryInv
<1>4. ~Doubtful(u)' /\ ~Doubtful(call[t].user)'
  <2>1. ~Doubtful(u)'
    BY <1>1
  <2> QED
    BY <1>1, <2>1 DEF Doubtful
<1>5. RowsOf(call[t].user)' = RowsOf(u)'
  BY <1>1 DEF RowsOf
<1>6. StoredPlace(u) # Unsure
  BY <1>2, PlaceKnown
<1>7. pc[t] \notin {"reload", "answer"} => Settled(t) = None
  BY <1>1, <1>3, SettledAnswer
<1> QED
  BY <1>1, <1>2, <1>3, <1>4, <1>5, <1>6, <1>7

LEMMA PersistServes ==
  ASSUME StoreInv, DirectoryInv, NEW t \in Threads, Persist(t),
         NEW u, u = call[t].user, ~Doubtful(u)
  PROVE  Directory!Serve(t)
<1>1. ThreadStep(t) /\ ~Reply(t) /\ doubted' = doubted
      /\ pc[t] = "write" /\ pc'[t] = "reload" /\ found' = found
  BY DEF ThreadStep, Reply, Persist, Goto, StoreInv, TypeOK
<1>2. /\ call[t] # None /\ call' = call /\ u \in Users
      /\ ~Doubtful(u)' /\ ~Doubtful(call[t].user)'
      /\ RowsOf(call[t].user)' = RowsOf(u)'
      /\ StoredPlace(u) # Unsure /\ Settled(t) = None
  BY <1>1, SureStep
<1>3. call[t] \in Updates /\ u \in riders
  BY SurePersist
<1>4. PICK s \in Row : LeavesRow(t, u, s)
  <2>1. \E s \in Row : LeavesRow(t, u, s)
    BY SurePersist
  <2> QED
    BY <2>1
<1>5. RowsOf(u)' = {s} /\ s.at = call[t].at
  BY <1>4 DEF LeavesRow
<1> DEFINE status == IF found[t] THEN 200 ELSE 201
<1>6. StoredPlace(u)' = PlaceOf(s)
  BY <1>2, <1>5, PlaceSettledNext
<1>7. Settled(t)' = Answer(status, PlaceOf(s))
  BY <1>1, <1>2, <1>5, SettledWriteNext
<1>8. Directory!Served(t, PlaceOf(s), status)
  BY <1>1, <1>6, <1>7, SettlingStep
<1>9. /\ PlaceOf(s) = Directory!NewPlace(StoredPlace(u), call[t])
      /\ status = IF StoredPlace(u) = None THEN 201 ELSE 200
  <2>1. CASE found[t]
    <3>1. PICK r \in Row :
            /\ RowsOf(u) = {r}
            /\ s.name = IF call[t].name = None THEN r.name ELSE call[t].name
      BY <1>4, <2>1 DEF LeavesRow
    <3>2. StoredPlace(u) = PlaceOf(r) /\ PlaceOf(r) # None
      <4>1. r \in rows
        BY <3>1 DEF RowsOf
      <4> QED
        BY <3>1, <4>1, PlaceSettled, PlacesAreSome
    <3> QED
      BY <1>5, <2>1, <3>1, <3>2 DEF PlaceOf, Directory!NewPlace
  <2>2. CASE ~found[t]
    <3>1. /\ RowsOf(u) = {}
          /\ s.name = IF call[t].name = None THEN Null ELSE call[t].name
      BY <1>4, <2>2 DEF LeavesRow
    <3>2. StoredPlace(u) = None
      BY <3>1, PlaceSettled
    <3> QED
      BY <1>5, <2>2, <3>1, <3>2 DEF PlaceOf, Directory!NewPlace
  <2> QED
    BY <2>1, <2>2
<1>10. Directory!Store(t, StoredPlace(u))
  BY <1>3, <1>8, <1>9 DEF Updates, Directory!Store
<1> QED
  BY <1>2, <1>10 DEF Directory!Serve

\* A refused row is answered, and the user keeps having none.
LEMMA RefusalServes ==
  ASSUME StoreInv, DirectoryInv, NEW t \in Threads, FailToPersist(t), doubted' = doubted,
         call[t].user \notin riders, NEW u, u = call[t].user, ~Doubtful(u)
  PROVE  Directory!Serve(t)
<1>1. /\ ThreadStep(t) /\ ~Reply(t) /\ pc[t] = "write" /\ pc'[t] = "answer"
      /\ call[t] \in Updates /\ answer'[t] = Answer(500, None) /\ rows' = rows
  BY DEF ThreadStep, Reply, FailToPersist, Respond, Goto, StoreInv, StepsTyped, TypeOK
<1>2. /\ call[t] # None /\ call' = call /\ u \in Users
      /\ ~Doubtful(u)' /\ ~Doubtful(call[t].user)'
      /\ StoredPlace(u) # Unsure /\ Settled(t) = None
  BY <1>1, SureStep
<1>3. /\ \A v : Doubtful(v)' <=> Doubtful(v)
      /\ \A x \in Threads \ {t} : Settled(x)' = Settled(x)
  BY <1>1, QuietStep
<1>4. ASSUME NEW v \in Users PROVE StoredPlace(v)' = StoredPlace(v)
  <2>1. RowsOf(v)' = RowsOf(v)
    BY <1>1 DEF RowsOf
  <2> QED
    BY <1>3, <2>1, PlaceStays
<1>5. Settled(t)' = Answer(500, None)
  BY <1>1, <1>2, SettledAnswerNext
<1>6. [x \in Threads |-> Settled(x)']
         = [[x \in Threads |-> Settled(x)] EXCEPT ![t] = Answer(500, None)]
  BY <1>3, <1>5
<1>7. Answer(500, None) = Directory!Answer(500, None)
  BY DEF Answer, Directory!Answer
<1>8. call[t].op = "update" /\ UNCHANGED <<[v \in Users |-> StoredPlace(v)], call>>
  BY <1>1, <1>2, <1>4 DEF Updates
<1>9. [x \in Threads |-> Settled(x)]'
         = [[x \in Threads |-> Settled(x)] EXCEPT ![t] = Directory!Answer(500, None)]
  BY <1>6, <1>7
<1>10. Directory!Store(t, StoredPlace(u))
  BY <1>8, <1>9, Zenon DEF Directory!Store
<1> QED
  BY <1>2, <1>10 DEF Directory!Serve

LEMMA LookupServes ==
  ASSUME StoreInv, DirectoryInv, NEW t \in Threads, LookForGet(t), doubted' = doubted,
         NEW u, u = call[t].user, ~Doubtful(u)
  PROVE  Directory!Serve(t)
<1>1. /\ ThreadStep(t) /\ ~Reply(t) /\ rows' = rows
      /\ pc[t] = "look" /\ pc'[t] = "answer" /\ call[t].op = "get"
      /\ \E place \in FetchLocationRecord(u) :
            /\ answer'[t] = Answer(IF place = None THEN 404 ELSE 200, place)
            /\ NoteMisread(u, place)
  BY DEF ThreadStep, Reply, LookForGet, Respond, Goto, StoreInv, StepsTyped, TypeOK
<1>2. /\ call[t] # None /\ call' = call /\ u \in Users /\ OneRow(u)
      /\ ~Doubtful(u)' /\ ~Doubtful(call[t].user)'
      /\ StoredPlace(u) # Unsure /\ Settled(t) = None
  BY <1>1, SureStep
<1> DEFINE old == StoredPlace(u)
<1>3. \A place \in FetchLocationRecord(u) : NoteMisread(u, place) => place = old
  <2> SUFFICES ASSUME NEW place \in FetchLocationRecord(u), NoteMisread(u, place)
               PROVE  place = old
    OBVIOUS
  <2>0. u \notin doubted'
    BY DEF Doubtful
  <2>1. CASE RowsOf(u) = {}
    BY <2>0, <2>1, ReadRight, PlaceSettled
  <2>2. CASE RowsOf(u) # {}
    <3>1. PICK r : RowsOf(u) = {r}
      BY <1>2, <2>2 DEF OneRow
    <3>2. old = PlaceOf(r)
      BY <3>1, PlaceSettled
    <3>3. \E q \in RowsOf(u) : place = PlaceOf(q)
      BY <2>0, <2>2, ReadRight
    <3> QED
      BY <3>1, <3>2, <3>3
  <2> QED
    BY <2>1, <2>2
<1>4. Settled(t)' = Answer(IF old = None THEN 404 ELSE 200, old)
  BY <1>1, <1>2, <1>3, SettledAnswerNext
<1>5. old' = old
  <2>1. RowsOf(u)' = RowsOf(u)
    BY <1>1 DEF RowsOf
  <2> QED
    BY <1>2, <2>1, PlaceStays
<1>6. Directory!Served(t, old, IF old = None THEN 404 ELSE 200)
  BY <1>1, <1>4, <1>5, SettlingStep
<1>7. Directory!Get(t, old)
  BY <1>1, <1>6 DEF Directory!Get
<1> QED
  BY <1>2, <1>7 DEF Directory!Serve

\* A deletion is served when it finds no row, or when its statement has run.
LEMMA DeletionServes ==
  ASSUME StoreInv, DirectoryInv, NEW t \in Threads, doubted' = doubted,
         NEW u, u = call[t].user, ~Doubtful(u),
         \/ LookForDelete(t) /\ RowsOf(u) = {} /\ pc'[t] = "answer"
         \/ Remove(t) /\ answer'[t] = Answer(200, None)
               /\ rows' = Executed(rows \ RowsOf(call[t].user))
  PROVE  Directory!Serve(t)
<1>1. /\ ThreadStep(t) /\ ~Reply(t) /\ pc[t] \in {"look", "remove"} /\ pc'[t] = "answer"
      /\ call[t].op = "delete" /\ database # "stub"
  BY DEF ThreadStep, Reply, LookForDelete, Remove, Respond, Goto, StoreInv, StepsTyped, TypeOK,
         Doubtful
<1>2. /\ call[t] # None /\ call' = call /\ u \in Users /\ SureCall(t)
      /\ ~Doubtful(u)' /\ ~Doubtful(call[t].user)'
      /\ StoredPlace(u) # Unsure /\ Settled(t) = None
  BY <1>1, SureStep
<1> DEFINE old == StoredPlace(u)
<1>3. answer'[t] = Answer(IF old = None THEN 404 ELSE 200, None)
  <2>1. CASE LookForDelete(t) /\ RowsOf(u) = {}
    <3>1. old = None
      BY <2>1, PlaceSettled
    <3>2. FetchLocationRecord(u) = {None}
      BY <2>1 DEF FetchLocationRecord
    <3> QED
      BY <2>1, <3>1, <3>2 DEF LookForDelete, Respond, StoreInv, StepsTyped
  <2>2. CASE Remove(t) /\ answer'[t] = Answer(200, None)
    <3>1. RowsOf(u) # {}
      BY <1>2, <2>2 DEF SureCall, Remove, Respond, Goto
    <3>2. PICK r \in RowsOf(u) : RowsOf(u) = {r}
      BY <1>2, <3>1 DEF DirectoryInv, OneRow
    <3>3. old # None
      BY <3>2, PlaceSettled, PlacesAreSome DEF RowsOf
    <3> QED
      BY <2>2, <3>3
  <2> QED
    BY <2>1, <2>2
<1>4. Settled(t)' = Answer(IF old = None THEN 404 ELSE 200, None)
  BY <1>1, <1>2, <1>3, SettledAnswerNext
<1>5. RowsOf(u)' = {}
  BY <1>1 DEF RowsOf, LookForDelete, Remove, Executed
<1>6. StoredPlace(u)' = None
  BY <1>2, <1>5, PlaceSettledNext
<1>7. Directory!Served(t, None, IF old = None THEN 404 ELSE 200)
  BY <1>1, <1>4, <1>6, SettlingStep
<1>8. Directory!Drop(t, old)
  BY <1>1, <1>7 DEF Directory!Drop
<1> QED
  BY <1>2, <1>8 DEF Directory!Serve

\* A lookup before a write, and the reading back after it, settle nothing new.
LEMMA ReadingSettlesNothing ==
  ASSUME StoreInv, DirectoryInv, NEW t \in Threads, doubted' = doubted,
         NEW u, u = call[t].user, ~Doubtful(u),
         LookForUpdate(t) \/ Reload(t) \/ (LookForDelete(t) /\ RowsOf(u) # {})
  PROVE  UNCHANGED Directory!directory
<1>0. u \notin doubted'
  BY DEF Doubtful
<1>1. ThreadStep(t) /\ ~Reply(t) /\ rows' = rows
  BY DEF ThreadStep, Reply, LookForUpdate, Reload, LookForDelete, Respond, Goto, StoreInv, TypeOK
<1>2. /\ call[t] # None /\ call' = call /\ u \in Users /\ SureCall(t) /\ OneRow(u)
      /\ ~Doubtful(u)' /\ ~Doubtful(call[t].user)'
      /\ pc[t] \notin {"reload", "answer"} => Settled(t) = None
  BY <1>1, SureStep
<1>3. StoredPlace(u)' = StoredPlace(u)
  <2>1. RowsOf(u)' = RowsOf(u)
    BY <1>1 DEF RowsOf
  <2> QED
    BY <1>2, <2>1, PlaceStays
<1>4. Settled(t)' = Settled(t)
  <2>1. CASE LookForUpdate(t) \/ (LookForDelete(t) /\ RowsOf(u) # {})
    <3>1. pc[t] = "look" /\ pc'[t] \in {"write", "remove"} /\ answer'[t] = answer[t]
      <4>1. CASE LookForUpdate(t)
        BY <4>1 DEF LookForUpdate, Goto, StoreInv, TypeOK
      <4>2. CASE LookForDelete(t) /\ RowsOf(u) # {}
        <5>1. PICK place \in FetchLocationRecord(u) :
                 /\ NoteMisread(u, place)
                 /\ place # None => Goto(t, "look", "remove") /\ UNCHANGED answer
          BY <4>2 DEF LookForDelete
        <5>2. place # None
          BY <1>0, <4>2, <5>1, ReadRight
        <5> QED
          BY <5>1, <5>2 DEF Goto, StoreInv, TypeOK
      <4> QED
        BY <2>1, <4>1, <4>2
    <3>2. Settled(t)' = answer'[t] /\ Settled(t) = answer[t]
      BY <1>2, <3>1, SettledAnswer, SettledAnswerNext
    <3> QED
      BY <3>1, <3>2
  <2>2. CASE Reload(t)
    <3>1. /\ pc[t] = "reload" /\ pc'[t] = "answer"
          /\ \E place \in FetchLocationRecord(u) :
                /\ answer'[t] = Answer(IF place = None THEN 500
                                       ELSE IF found[t] THEN 200 ELSE 201, place)
                /\ NoteMisread(u, place)
      BY <2>2 DEF Reload, Respond, Goto, StoreInv, StepsTyped, TypeOK
    <3>2. PICK r \in RowsOf(u) : RowsOf(u) = {r}
      BY <1>2, <3>1 DEF SureCall, OneRow
    <3>3. \A place \in FetchLocationRecord(u) :
             NoteMisread(u, place) => place = PlaceOf(r) /\ place # None
      BY <1>0, <3>2, ReadRight
    <3>4. answer'[t] = Answer(IF found[t] THEN 200 ELSE 201, PlaceOf(r))
      BY <3>1, <3>3
    <3>5. Settled(t)' = answer'[t]
      BY <1>2, <3>1, SettledAnswerNext
    <3>6. Settled(t) = Answer(IF found[t] THEN 200 ELSE 201, PlaceOf(r))
      BY <1>2, <3>1, <3>2, SettledWrite
    <3> QED
      BY <3>4, <3>5, <3>6
  <2> QED
    BY <2>1, <2>2
<1> QED
  BY <1>1, <1>3, <1>4, UnsettledStep

\* A failing statement, a SELECT included, casts a doubt on the user.
LEMMA FailureDoubts ==
  ASSUME StoreInv, DirectoryInv, NEW t \in Threads, ThreadStep(t), ~Reply(t),
         rows' = rows, doubted' = doubted \cup {call[t].user}
  PROVE  Directory!Fail(t)
<1>1. PICK u : u = call[t].user
  OBVIOUS
<1>2. /\ ThreadActs(t) /\ call[t] # None /\ call' = call /\ database' = database
  BY DEF ThreadActs, ThreadStep, LookForUpdate, Persist, FailToPersist, Reload, LookForGet,
         LookForDelete, Remove, Respond, Goto, StoreInv, TypeOK
<1>3. u \in Users
  BY <1>1, <1>2, CallsHaveUsers
<1>4. ASSUME NEW v PROVE Doubtful(v)' <=> Doubtful(v) \/ v = u
  BY <1>1, <1>2 DEF Doubtful
<1>5. ASSUME NEW v \in Users PROVE StoredPlace(v)' = IF v = u THEN Unsure ELSE StoredPlace(v)
  <2>1. CASE v = u
    BY <1>4, <2>1 DEF StoredPlace
  <2>2. CASE v # u
    <3>1. RowsOf(v)' = RowsOf(v)
      BY DEF RowsOf
    <3> QED
      BY <1>4, <2>2, <3>1, PlaceStays
  <2> QED
    BY <2>1, <2>2
<1>6. ASSUME NEW x \in Threads
      PROVE  Settled(x)' = IF call[x] # None /\ call[x].user = u THEN Unsure ELSE Settled(x)
  <2>1. CASE call[x] # None /\ call[x].user = u
    <3>1. Doubtful(call[x].user)'
      BY <1>1, <1>2, <2>1 DEF Doubtful
    <3> QED
      BY <1>2, <2>1, <3>1 DEF Settled
  <2>2. CASE ~(call[x] # None /\ call[x].user = u)
    <3>1. x # t
      BY <1>1, <1>2, <2>2
    <3>2. call[x] # None => (Doubtful(call[x].user)' <=> Doubtful(call[x].user))
      BY <1>1, <1>2, <2>2 DEF Doubtful
    <3> QED
      BY <1>2, <2>2, <3>1, <3>2, OthersSettled
  <2> QED
    BY <2>1, <2>2
<1>7. [v \in Users |-> StoredPlace(v)]'
         = [[v \in Users |-> StoredPlace(v)] EXCEPT ![u] = Unsure]
  BY <1>3, <1>5
<1>8. [x \in Threads |-> Settled(x)]'
         = [x \in Threads |-> IF call'[x] # None /\ call'[x].user = u THEN Unsure
                              ELSE [y \in Threads |-> Settled(y)][x]]
  BY <1>2, <1>6
<1>9. Directory!Doubt(u)
  BY <1>7, <1>8 DEF Directory!Doubt
<1> QED
  BY <1>1, <1>2, <1>9 DEF Directory!Fail

\* A call begins for sure when the user has no other and no doubt lies on him; else
\* it clashes.
LEMMA AcceptBegins ==
  ASSUME StoreInv, DirectoryInv, NEW t \in Threads, NEW c \in Call, Accept(t, c)
  PROVE  Directory!Begin(t, c) \/ Directory!Clash(t, c)
<1> DEFINE u == c.user
<1>1. /\ ThreadActs(t) /\ call[t] = None /\ rows' = rows /\ database' = database
      /\ call' = [call EXCEPT ![t] = c] /\ pc[t] = "idle" /\ pc'[t] = "look"
      /\ answer' = answer /\ call'[t] = c /\ c # None
      /\ \A x \in Threads \ {t} : call'[x] = call[x]
  BY StoreAssumption DEF ThreadActs, Accept, Goto, StoreInv, TypeOK
<1>2. u \in Users
  BY DEF Call
<1>3. answer[t] = None
  BY <1>1 DEF DirectoryInv
<1>4. Settled(t) = None
  BY <1>1, SettledNone
<1>5. CASE About(u) = {} /\ ~Doubtful(u)
  <2>1. doubted' = doubted
    BY <1>5 DEF Accept
  <2>2. ASSUME NEW v PROVE Doubtful(v)' <=> Doubtful(v)
    BY <1>1, <2>1 DEF Doubtful
  <2>3. ASSUME NEW v \in Users PROVE StoredPlace(v)' = StoredPlace(v)
    <3>1. RowsOf(v)' = RowsOf(v)
      BY <1>1 DEF RowsOf
    <3> QED
      BY <2>2, <3>1, PlaceStays
  <2>4. ASSUME NEW x \in Threads PROVE Settled(x)' = Settled(x)
    <3>1. CASE x = t
      <4>1. ~Doubtful(u)'
        BY <1>5, <2>2
      <4>2. ~Doubtful(call[t].user)'
        BY <1>1, <4>1 DEF Doubtful
      <4>3. Settled(t)' = answer'[t]
        BY <1>1, <4>2, SettledAnswerNext
      <4> QED
        BY <1>1, <1>3, <1>4, <3>1, <4>3
    <3>2. CASE x # t
      <4>1. Doubtful(call[x].user)' <=> Doubtful(call[x].user)
        BY <1>1, <2>1, <3>2 DEF Doubtful
      <4> QED
        BY <1>1, <3>2, <4>1, OthersSettled
    <3> QED
      BY <3>1, <3>2
  <2>5. UNCHANGED <<[v \in Users |-> StoredPlace(v)], [x \in Threads |-> Settled(x)]>>
    BY <2>3, <2>4
  <2>6. [v \in Users |-> StoredPlace(v)][u] # Unsure
    BY <1>2, <1>5, PlaceKnown
  <2>7. Directory!Begin(t, c)
    BY <1>1, <2>5, <2>6 DEF Directory!Begin
  <2> QED
    BY <2>7
<1>6. CASE About(u) # {} \/ Doubtful(u)
  <2>1. doubted' = (IF About(u) = {} THEN doubted ELSE doubted \cup {u}) /\ Doubtful(u)'
    BY <1>1, <1>6 DEF Accept, Doubtful
  <2>2. ASSUME NEW v PROVE Doubtful(v)' <=> Doubtful(v) \/ v = u
    BY <1>1, <1>6, <2>1 DEF Doubtful
  <2>3. ASSUME NEW v \in Users
        PROVE  StoredPlace(v)' = IF v = u THEN Unsure ELSE StoredPlace(v)
    <3>1. CASE v = u
      BY <2>2, <3>1 DEF StoredPlace
    <3>2. CASE v # u
      <4>1. RowsOf(v)' = RowsOf(v)
        BY <1>1 DEF RowsOf
      <4> QED
        BY <2>2, <3>2, <4>1, PlaceStays
    <3> QED
      BY <3>1, <3>2
  <2>4. ASSUME NEW x \in Threads
        PROVE  Settled(x)' = IF call'[x] # None /\ call'[x].user = u THEN Unsure ELSE Settled(x)
    <3>1. CASE call'[x] # None /\ call'[x].user = u
      <4>1. Doubtful(call[x].user)'
        BY <2>1, <3>1 DEF Doubtful
      <4> QED
        BY <3>1, <4>1 DEF Settled
    <3>2. CASE ~(call'[x] # None /\ call'[x].user = u)
      <4>1. x # t /\ call'[x] = call[x]
        BY <1>1, <3>2
      <4>2. call[x] # None => (Doubtful(call[x].user)' <=> Doubtful(call[x].user))
        BY <1>1, <2>1, <3>2, <4>1 DEF Doubtful
      <4> QED
        BY <1>1, <3>2, <4>1, <4>2, OthersSettled
    <3> QED
      BY <3>1, <3>2
  <2>5. [v \in Users |-> StoredPlace(v)]'
           = [[v \in Users |-> StoredPlace(v)] EXCEPT ![u] = Unsure]
    BY <1>2, <2>3
  <2>6. [x \in Threads |-> Settled(x)]'
           = [x \in Threads |-> IF call'[x] # None /\ call'[x].user = u THEN Unsure
                                ELSE [y \in Threads |-> Settled(y)][x]]
    BY <2>4
  <2>7. Directory!Doubt(u)
    BY <2>5, <2>6 DEF Directory!Doubt
  <2>8. \/ [v \in Users |-> StoredPlace(v)][u] = Unsure
        \/ \E x \in Threads : call[x] # None /\ call[x].user = u
    BY <1>2, <1>6, PlaceKnown DEF About
  <2>9. Directory!Clash(t, c)
    BY <1>1, <2>7, <2>8 DEF Directory!Clash
  <2> QED
    BY <2>9
<1> QED
  BY <1>5, <1>6

\* The client gets its answer, and the directory is done with the call.
LEMMA ReplyFinishes ==
  ASSUME StoreInv, DirectoryInv, NEW t \in Threads, Reply(t), call[t] # None
  PROVE  Directory!Finish(t)
<1>1. /\ ThreadActs(t) /\ rows' = rows /\ doubted' = doubted /\ database' = database
      /\ call' = [call EXCEPT ![t] = None] /\ pc[t] = "answer" /\ pc'[t] = "idle"
      /\ call'[t] = None
  BY DEF ThreadActs, ThreadStep, Reply, Goto, StoreInv, TypeOK
<1>2. ASSUME NEW v PROVE Doubtful(v)' <=> Doubtful(v)
  BY <1>1 DEF Doubtful
<1>3. ASSUME NEW v \in Users PROVE StoredPlace(v)' = StoredPlace(v)
  <2>1. RowsOf(v)' = RowsOf(v)
    BY <1>1 DEF RowsOf
  <2> QED
    BY <1>2, <2>1, PlaceStays
<1>4. ASSUME NEW x \in Threads PROVE Settled(x)' = IF x = t THEN None ELSE Settled(x)
  <2>1. CASE x = t
    BY <1>1, <2>1 DEF Settled
  <2>2. CASE x # t
    <3>1. call[x] # None => (Doubtful(call[x].user)' <=> Doubtful(call[x].user))
      <4>1. call'[x] = call[x]
        BY <1>1, <2>2, OthersStay
      <4> QED
        BY <1>1, <4>1 DEF Doubtful
    <3> QED
      BY <1>1, <2>2, <3>1, OthersSettled
  <2> QED
    BY <2>1, <2>2
<1>5. Settled(t) # None
  <2>1. CASE Doubtful(call[t].user)
    BY <2>1, SettledDoubtful, StoreAssumption
  <2>2. CASE ~Doubtful(call[t].user)
    BY <1>1, <2>2, SettledAnswer DEF DirectoryInv
  <2> QED
    BY <2>1, <2>2
<1>6. [x \in Threads |-> Settled(x)]' = [[x \in Threads |-> Settled(x)] EXCEPT ![t] = None]
  BY <1>4
<1>7. UNCHANGED [v \in Users |-> StoredPlace(v)]
  BY <1>3
<1> QED
  BY <1>1, <1>5, <1>6, <1>7 DEF Directory!Finish

\* What is answered without a call is no business of the directory's.
LEMMA IdleAnswers ==
  ASSUME StoreInv, DirectoryInv, NEW t \in Threads, call[t] = None,
         \/ Refuse(t) \/ Reply(t)
         \/ \E centre \in Centres, radius \in Radii : FindNearby(t, centre, radius)
  PROVE  UNCHANGED Directory!directory
<1>1. /\ ThreadActs(t) /\ rows' = rows /\ doubted' = doubted /\ database' = database
      /\ call' = call /\ riders' = riders /\ pc[t] # "reload"
      /\ pc'[t] # "reload"
  BY DEF ThreadActs, ThreadStep, Reply, Refuse, FindNearby, Respond, Goto, StoreInv, TypeOK
<1>2. ASSUME NEW v PROVE Doubtful(v)' <=> Doubtful(v)
  BY <1>1 DEF Doubtful
<1>3. ASSUME NEW v \in Users PROVE StoredPlace(v)' = StoredPlace(v)
  <2>1. RowsOf(v)' = RowsOf(v)
    BY <1>1 DEF RowsOf
  <2> QED
    BY <1>2, <2>1, PlaceStays
<1>4. ASSUME NEW x \in Threads PROVE Settled(x)' = Settled(x)
  <2>1. CASE x = t
    <3>1. Settled(t) = None
      BY <1>1, SettledNone
    <3>2. Settled(t)' = None
      BY <1>1 DEF Settled
    <3> QED
      BY <2>1, <3>1, <3>2
  <2>2. CASE x # t
    <3>1. call[x] # None => (Doubtful(call[x].user)' <=> Doubtful(call[x].user))
      BY <1>1 DEF Doubtful
    <3> QED
      BY <1>1, <2>2, <3>1, OthersSettled
  <2> QED
    BY <2>1, <2>2
<1> QED
  BY <1>1, <1>3, <1>4, DirectoryStays

LEMMA DirectoryStart == Init => Directory!DirectoryInit
<1> SUFFICES ASSUME Init PROVE Directory!DirectoryInit
  OBVIOUS
<1>1. ASSUME NEW u \in Users PROVE StoredPlace(u) \in {None, Unsure}
  BY DEF Init, StoredPlace, RowsOf
<1>2. ASSUME NEW t \in Threads PROVE Settled(t) = None
  BY <1>2, SettledNone DEF Init
<1>3. [u \in Users |-> StoredPlace(u)] \in [Users -> {None, Unsure}]
  BY <1>1
<1>4. [t \in Threads |-> Settled(t)] = [t \in Threads |-> None]
  BY <1>2
<1> QED
  BY <1>3, <1>4 DEF Init, Directory!DirectoryInit

LEMMA CallMoves ==
  ASSUME StoreInv, DirectoryInv, NEW t \in Threads, ThreadStep(t), ~Reply(t)
  PROVE  Directory!Serve(t) \/ Directory!Fail(t) \/ UNCHANGED Directory!directory
<1>1. PICK u : u = call[t].user
  OBVIOUS
<1>2. CASE doubted' = doubted /\ Doubtful(u)
  BY <1>1, <1>2, DoubtfulStep
<1>3. CASE ~Doubtful(u) /\ Persist(t)
  BY <1>1, <1>3, PersistServes
<1>4. CASE doubted' = doubted /\ ~Doubtful(u) /\ LookForGet(t)
  BY <1>1, <1>4, LookupServes
<1>5. CASE /\ doubted' = doubted /\ ~Doubtful(u)
           /\ LookForUpdate(t) \/ Reload(t) \/ (LookForDelete(t) /\ RowsOf(u) # {})
  BY <1>1, <1>5, ReadingSettlesNothing
<1>6. CASE doubted' = doubted /\ ~Doubtful(u) /\ LookForDelete(t) /\ RowsOf(u) = {}
  <2>1. pc'[t] = "answer"
    BY <1>1, <1>6 DEF LookForDelete, FetchLocationRecord, Respond, Goto, StoreInv, TypeOK
  <2> QED
    BY <1>1, <1>6, <2>1, DeletionServes
<1>7. CASE FailToPersist(t)
  <2>1. \/ call[t].user \notin riders /\ doubted' = doubted
        \/ doubted' = doubted \cup {call[t].user}
    BY <1>7 DEF FailToPersist
  <2>2. rows' = rows
    BY <1>7 DEF FailToPersist
  <2> QED
    BY <1>1, <1>2, <1>7, <2>1, <2>2, RefusalServes, FailureDoubts
<1>8. CASE Remove(t)
  <2>1. CASE doubted' = doubted \cup {call[t].user} /\ rows' = rows
    BY <1>8, <2>1, FailureDoubts
  <2>2. CASE /\ doubted' = doubted /\ answer'[t] = Answer(200, None)
             /\ rows' = Executed(rows \ RowsOf(call[t].user))
    BY <1>1, <1>2, <1>8, <2>2, DeletionServes
  <2> QED
    BY <1>8, <2>1, <2>2 DEF Remove, Respond, StoreInv, StepsTyped
<1>9. CASE LookForUpdate(t) \/ Reload(t) \/ LookForGet(t) \/ LookForDelete(t)
  <2>1. /\ rows' = rows
        /\ doubted' = doubted \/ doubted' = doubted \cup {call[t].user}
    BY <1>9 DEF LookForUpdate, Reload, LookForGet, LookForDelete, NoteMisread
  <2>2. CASE doubted' = doubted
    BY <1>2, <1>4, <1>5, <1>6, <1>9, <2>2
  <2>3. CASE doubted' = doubted \cup {call[t].user}
    BY <2>1, <2>3, FailureDoubts
  <2> QED
    BY <2>1, <2>2, <2>3
<1>10. CASE Persist(t)
  <2>1. doubted' = doubted
    BY <1>10 DEF Persist
  <2> QED
    BY <1>2, <1>3, <1>10, <2>1
<1> QED
  BY <1>7, <1>8, <1>9, <1>10 DEF ThreadStep

LEMMA DirectoryStep ==
  StoreInv /\ DirectoryInv /\ [Next]_vars
     => [Directory!DirectoryNext /\ UNCHANGED riders]_(Directory!directory)
<1> SUFFICES ASSUME StoreInv, DirectoryInv, [Next]_vars
             PROVE  [Directory!DirectoryNext /\ UNCHANGED riders]_(Directory!directory)
  OBVIOUS
<1>1. CASE UNCHANGED vars
  <2>1. ASSUME NEW u PROVE RowsOf(u)' = RowsOf(u) /\ (Doubtful(u)' <=> Doubtful(u))
    BY <1>1 DEF vars, RowsOf, Doubtful
  <2>2. ASSUME NEW u \in Users PROVE StoredPlace(u)' = StoredPlace(u)
    BY <2>1, PlaceStays
  <2>3. ASSUME NEW t \in Threads PROVE Settled(t)' = Settled(t)
    BY <1>1 DEF vars, Settled, Doubtful, RowsOf
  <2> QED
    BY <1>1, <2>2, <2>3, DirectoryStays DEF vars
<1>2. ASSUME NEW t \in Threads, ThreadActs(t)
      PROVE  [Directory!DirectoryNext /\ UNCHANGED riders]_(Directory!directory)
  <2>1. riders' = riders
    BY <1>2, DoubtsGrow
  <2>2. CASE ThreadStep(t) /\ ~Reply(t)
    <3>1. Directory!Serve(t) \/ Directory!Fail(t) \/ UNCHANGED Directory!directory
      BY <2>2, CallMoves
    <3> QED
      BY <2>1, <3>1 DEF Directory!DirectoryNext
  <2>3. CASE Reply(t) /\ call[t] # None
    BY <2>1, <2>3, ReplyFinishes DEF Directory!DirectoryNext
  <2>4. CASE \/ Reply(t) /\ call[t] = None
             \/ Refuse(t)
             \/ \E centre \in Centres, radius \in Radii : FindNearby(t, centre, radius)
    <3>1. call[t] = None
      BY <2>4 DEF Refuse, FindNearby, Respond, Goto, StoreInv, TypeOK
    <3> QED
      BY <2>4, <3>1, IdleAnswers
  <2>5. CASE \E c \in Call : Accept(t, c)
    <3>1. PICK c \in Call : Accept(t, c)
      BY <2>5
    <3>2. c \in Directory!Call
      BY DEF Call, Directory!Call
    <3>3. Directory!Begin(t, c) \/ Directory!Clash(t, c)
      BY <3>1, AcceptBegins
    <3> QED
      BY <2>1, <3>2, <3>3 DEF Directory!DirectoryNext
  <2> QED
    BY <1>2, <2>2, <2>3, <2>4, <2>5 DEF ThreadActs
<1> QED
  BY <1>1, <1>2, NextByThread

\* LocationManager is a directory: as long as the calls about a user do not overlap
\* and no statement about him fails, he has one place, and each call takes effect at
\* one moment between its start and its answer, whatever calls about others do.
THEOREM StoreIsDirectory == Spec => IsDirectory
  BY DirectoryStart, DirectoryStep, StoreTyping, DirectoryInvariant, PTL
  DEF Spec, IsDirectory, Directory!DirectorySpec

-----------------------------------------------------------------------------
(* Searches *)

\* The rows come as a list of them all, the nearest first.
LEMMA NearestFirstLists ==
  ASSUME NEW S, IsFiniteSet(S), NEW centre, \A x \in S : Haversine(x.at, centre) \in Int
  PROVE  LET list == NearestFirst(S, centre)
         IN  /\ list \in [1 .. Cardinality(S) -> S] /\ Range(list) = S
             /\ \A i, j \in DOMAIN list : i < j =>
                   Haversine(list[i].at, centre) <= Haversine(list[j].at, centre)
<1> DEFINE d == [x \in S |-> Haversine(x.at, centre)]
<1>1. PICK list : Lists(list, S, d)
  <2>1. \A x \in S : d[x] \in Int
    OBVIOUS
  <2> HIDE DEF d
  <2> QED
    BY <2>1, InOrder
<1>2. \A i \in 1 .. Cardinality(S) : list[i] \in S /\ d[list[i]] = Haversine(list[i].at, centre)
  BY <1>1 DEF Lists
<1> HIDE DEF d
<1>3. /\ list \in [1 .. Cardinality(S) -> S] /\ Range(list) = S
      /\ \A i, j \in DOMAIN list : i < j =>
            Haversine(list[i].at, centre) <= Haversine(list[j].at, centre)
  BY <1>1, <1>2 DEF Lists
<1> QED
  BY <1>3 DEF NearestFirst

\* Sines: the table grows up to half way round, and so has no two arcs of one sine.
LEMMA HavTable ==
  /\ Scale \in Nat \ {0} /\ MaxLat \in Nat /\ MaxLng = 2 * MaxLat
  /\ \A k \in 0 .. 2 * MaxLng : Hav[k] \in 0 .. Scale
  /\ \A j, k \in 0 .. MaxLng : Hav[j] <= Hav[k] => j <= k
<1>1. /\ Scale \in Nat \ {0} /\ MaxLat \in Nat /\ MaxLat # 0 /\ MaxLng = 2 * MaxLat
      /\ \A k \in 0 .. 2 * MaxLng : Hav[k] \in 0 .. Scale
  BY SearchAssumption
<1>2. ASSUME NEW j \in 0 .. MaxLng, NEW k \in 0 .. MaxLng, Hav[j] <= Hav[k] PROVE j <= k
  <2>1. Hav[j] \in Nat /\ Hav[k] \in Nat
    BY <1>1
  <2>2. k < j => Hav[k] < Hav[j]
    BY SearchAssumption
  <2> QED
    BY <1>1, <1>2, <2>1, <2>2
<1> QED
  BY <1>1, <1>2

LEMMA GapOf ==
  ASSUME NEW a \in Int, NEW b \in Int
  PROVE  Gap(a, b) \in Nat /\ Gap(a, b) = Gap(b, a)
  BY DEF Gap

\* No latitude has a negative cosine; that of the equator is 1.
LEMMA CosRange ==
  ASSUME NEW lat \in -MaxLat .. MaxLat
  PROVE  Cos(lat) \in 0 .. Scale /\ (lat = 0 => Cos(lat) = Scale)
<1>1. lat \in Int /\ Gap(lat, 0) \in 0 .. MaxLat /\ (lat = 0 => Gap(lat, 0) = 0)
  BY HavTable DEF Gap
<1>2. /\ Hav[Gap(lat, 0)] \in 0 .. Scale
      /\ Gap(lat, 0) = MaxLat \/ Hav[Gap(lat, 0)] < Hav[MaxLat]
  BY <1>1, SearchAssumption
<1>3. 2 * Hav[MaxLat] = Scale /\ Hav[0] = 0 /\ Hav[MaxLat] \in Nat
  BY SearchAssumption
<1>4. 2 * Hav[Gap(lat, 0)] <= Scale
  BY <1>2, <1>3, HavTable
<1> QED
  BY <1>1, <1>2, <1>3, <1>4, HavTable DEF Cos

LEMMA ProductsGrow ==
  ASSUME NEW a \in Nat, NEW b \in Nat, NEW c \in Nat, NEW d \in Nat, a <= b, c <= d
  PROVE  a * c <= b * d /\ a * c \in Nat /\ b * d \in Nat
<1>1. PICK x \in Nat, y \in Nat : b = a + x /\ d = c + y
  <2>1. b - a \in Nat /\ d - c \in Nat
    OBVIOUS
  <2>2. b = a + (b - a) /\ d = c + (d - c)
    OBVIOUS
  <2> QED
    BY <2>1, <2>2
<1>2. b * d = a * c + a * y + x * c + x * y
  BY <1>1
<1>3. a * c \in Nat /\ a * y \in Nat /\ x * c \in Nat /\ x * y \in Nat
  BY <1>1
<1> QED
  BY <1>2, <1>3

LEMMA FactorsGrow ==
  ASSUME NEW s \in Nat \ {0}, NEW a \in Nat, NEW b \in Nat, s * a <= s * b
  PROVE  a <= b
<1> SUFFICES ASSUME b < a PROVE FALSE
  OBVIOUS
<1>1. PICK k \in Nat : a = b + 1 + k
  <2>1. a - b - 1 \in Nat
    OBVIOUS
  <2> QED
    BY <2>1
<1>2. s * a = s * b + s + s * k
  BY <1>1
<1>3. s * k \in Nat /\ s * b \in Nat
  BY <1>1
<1> QED
  BY <1>2, <1>3

\* What is within the radius is so in latitude.
LEMMA NearInLatitude ==
  ASSUME NEW p, Valid(p), NEW centre, Valid(centre), NEW r \in Nat
  PROVE  /\ Haversine(p, centre) \in Nat
         /\ Within(p, centre, r) => InLatitude(p, centre, r)
<1> PICK a, b, c, d : /\ a = Gap(p.lat, centre.lat) /\ b = Gap(p.lng, centre.lng)
                      /\ c = Cos(p.lat) /\ d = Cos(centre.lat)
  OBVIOUS
<1>1. /\ p.lat \in -MaxLat .. MaxLat /\ centre.lat \in -MaxLat .. MaxLat
      /\ p.lng \in -MaxLng .. MaxLng /\ centre.lng \in -MaxLng .. MaxLng
      /\ Scale \in Nat \ {0} /\ MaxLat \in Nat /\ MaxLng = 2 * MaxLat
  BY HavTable DEF Valid
<1>2. a \in 0 .. MaxLng /\ b \in 0 .. 2 * MaxLng
  BY <1>1 DEF Gap
<1>3. c \in Nat /\ d \in Nat
  BY <1>1, CosRange
<1> PICK ha, hb : ha = Hav[a] /\ hb = Hav[b]
  OBVIOUS
<1>4. ha \in Nat /\ hb \in Nat
  BY <1>1, <1>2, HavTable
<1>5. PICK s : s = Scale * Scale
  OBVIOUS
<1>6. s \in Nat \ {0}
  BY <1>1, <1>5
<1>7. PICK q : q = c * d * hb
  OBVIOUS
<1>8. q \in Nat /\ s * ha \in Nat
  BY <1>3, <1>4, <1>6, <1>7
<1>9. Haversine(p, centre) = s * ha + q
  BY <1>5, <1>7 DEF Haversine
<1>10. ASSUME Within(p, centre, r) PROVE a <= r
  <2>1. CASE r >= MaxLng
    BY <1>1, <1>2, <2>1
  <2>2. CASE r < MaxLng
    <3>1. Haversine(p, centre) <= s * Hav[r]
      BY <1>1, <1>5, <1>10, <2>2 DEF Within
    <3>2. Hav[r] \in Nat
      BY <1>1, <2>2, HavTable
    <3>3. s * Hav[r] \in Nat
      BY <1>6, <3>2
    <3>4. s * ha <= s * Hav[r]
      BY <1>8, <1>9, <3>1, <3>3
    <3>5. ha <= Hav[r]
      BY <1>4, <1>6, <3>2, <3>4, FactorsGrow
    <3> QED
      BY <1>1, <1>2, <2>2, <3>5, HavTable
  <2> QED
    BY <1>1, <2>1, <2>2
<1>11. a <= r => InLatitude(p, centre, r)
  BY <1>2 DEF InLatitude, BoxDegree, EarthDegree
<1> QED
  BY <1>8, <1>9, <1>10, <1>11

\* What lies beyond the width of the box is far in longitude.
LEMMA BeyondTheWidth ==
  ASSUME NEW p, Valid(p), NEW centre, Valid(centre), NEW r \in Nat \ {0},
         ~InLongitude(p, centre, r)
  PROVE  /\ Gap(p.lng, centre.lng) > r
         /\ Gap(p.lng, centre.lng) * Cos(centre.lat) * BoxDegree > r * Scale * EarthDegree
<1> PICK b, d : b = Gap(p.lng, centre.lng) /\ d = Cos(centre.lat)
  OBVIOUS
<1>1. /\ centre.lat \in -MaxLat .. MaxLat
      /\ p.lng \in -MaxLng .. MaxLng /\ centre.lng \in -MaxLng .. MaxLng
      /\ Scale \in Nat \ {0} /\ MaxLng \in Nat /\ 2 * MaxLng <= Scale
  BY SearchAssumption, HavTable DEF Valid
<1>2. b \in Nat /\ b <= Scale
  BY <1>1 DEF Gap
<1>3. d \in 0 .. Scale
  BY <1>1, CosRange
<1> PICK n : n = Narrowing(centre.lat)
  OBVIOUS
<1>4. n \in 1 .. Scale /\ (d # 0 => n = d) /\ (d = 0 => n = 1)
  BY <1>1, <1>3 DEF Narrowing
<1>5. /\ b * n \in Nat /\ b * d \in Nat /\ r * Scale \in Nat
  BY <1>1, <1>2, <1>3, <1>4
<1>6. ~(b * n * 11100 <= r * Scale * 11119)
  <2>1. b * 11100 * n = b * n * 11100 /\ r * 11119 * Scale = r * Scale * 11119
    BY <1>1, <1>2, <1>4
  <2> QED
    BY <2>1 DEF InLongitude, BoxDegree, EarthDegree
<1>7. b * n > r * Scale
  BY <1>5, <1>6
<1>8. b > r
  <2> SUFFICES ASSUME b <= r PROVE FALSE
    BY <1>2
  <2>1. b * n <= r * Scale
    BY <1>1, <1>2, <1>4, ProductsGrow
  <2> QED
    BY <1>5, <1>7, <2>1
<1>9. d # 0
  <2> SUFFICES ASSUME d = 0 PROVE FALSE
    OBVIOUS
  <2>1. b * n = b
    BY <1>2, <1>4
  <2>2. 1 * Scale <= r * Scale
    <3>1. 1 <= r /\ Scale <= Scale
      BY <1>1
    <3> QED
      BY <1>1, <3>1, ProductsGrow
  <2>3. Scale <= r * Scale
    BY <1>1, <2>2
  <2>4. PICK x \in Nat : x = r * Scale
    BY <1>5
  <2>5. b > x /\ Scale <= x
    BY <1>7, <2>1, <2>3, <2>4
  <2> QED
    BY <1>1, <1>2, <2>4, <2>5
<1>10. b * d * 11100 > r * Scale * 11119
  BY <1>4, <1>5, <1>6, <1>9
<1> QED
  BY <1>8, <1>10 DEF BoxDegree, EarthDegree

\* Round a point of the equator, short of the poles, what is within the radius is so
\* in longitude, counted the shorter way: with k the square of the sine of half the
\* latitude and h that of half the difference in longitude, scale k + (scale - 2k) h
\* is at least scale / 2 or at least scale h.
LEMMA NearOnEquator ==
  ASSUME NEW p, Valid(p), NEW centre, Valid(centre), centre.lat = 0,
         NEW r \in Nat, r < MaxLat, Within(p, centre, r),
         Gap(p.lng, centre.lng) <= MaxLng
  PROVE  Gap(p.lng, centre.lng) <= r
<1> PICK b, k, h, s, H : /\ b = Gap(p.lng, centre.lng) /\ k = Hav[Gap(p.lat, 0)] /\ h = Hav[b]
                         /\ s = Scale /\ H = Hav[r]
  OBVIOUS
<1>1. /\ p.lat \in -MaxLat .. MaxLat
      /\ p.lng \in -MaxLng .. MaxLng /\ centre.lng \in -MaxLng .. MaxLng
      /\ s \in Nat \ {0} /\ MaxLat \in Nat /\ MaxLng = 2 * MaxLat
  BY HavTable DEF Valid
<1>2. b \in 0 .. MaxLng /\ r \in 0 .. MaxLng /\ Gap(p.lat, 0) \in 0 .. MaxLng
  BY <1>1 DEF Gap
<1>3. k \in Nat /\ h \in Nat /\ H \in Nat
  BY <1>1, <1>2, HavTable
<1>4. 2 * H < s
  <2>1. Hav[r] < Hav[MaxLat] /\ 2 * Hav[MaxLat] = Scale /\ Hav[MaxLat] \in Nat
    BY <1>1, <1>2, SearchAssumption
  <2> QED
    BY <1>1, <1>3, <2>1
<1>5. 2 * k <= s
  <2>1. Cos(p.lat) \in 0 .. Scale
    BY <1>1, CosRange
  <2> QED
    BY <1>1, <1>3, <2>1 DEF Cos
<1>6. s * k + (s - 2 * k) * h <= s * H
  <2>1. Cos(centre.lat) = s /\ Cos(p.lat) = s - 2 * k
    <3>1. centre.lat \in -MaxLat .. MaxLat
      BY <1>1
    <3> QED
      BY <3>1, CosRange DEF Cos
  <2>2. Haversine(p, centre) = s * s * k + (s - 2 * k) * s * h
    BY <2>1 DEF Haversine
  <2>3. Haversine(p, centre) <= s * s * H
    BY <1>1 DEF Within
  <2>4. /\ s * s * k + (s - 2 * k) * s * h = s * (s * k + (s - 2 * k) * h)
        /\ s * s * H = s * (s * H)
    BY <1>1, <1>3
  <2>5. s * k + (s - 2 * k) * h \in Nat /\ s * H \in Nat
    <3>1. s * k \in Nat /\ s * H \in Nat /\ s - 2 * k \in Nat
      BY <1>1, <1>3, <1>5
    <3>2. (s - 2 * k) * h \in Nat
      BY <1>3, <3>1
    <3> QED
      BY <3>1, <3>2
  <2>6. s * (s * k + (s - 2 * k) * h) <= s * (s * H)
    BY <2>2, <2>3, <2>4
  <2> QED
    BY <1>1, <2>5, <2>6, FactorsGrow
<1>7. CASE 2 * h <= s
  <2>1. s * k + (s - 2 * k) * h = s * h + k * (s - 2 * h)
    BY <1>1, <1>3
  <2>2. k * (s - 2 * h) \in Nat /\ s * h \in Nat /\ s * H \in Nat
    <3>1. s - 2 * h \in Nat
      BY <1>1, <1>3, <1>7
    <3> QED
      BY <1>1, <1>3, <3>1
  <2>3. s * h <= s * H
    BY <1>6, <2>1, <2>2
  <2>4. h <= H
    BY <1>1, <1>3, <2>3, FactorsGrow
  <2> QED
    BY <1>2, <2>4, HavTable
<1>8. CASE ~(2 * h <= s)
  <2>1. (s - 2 * k) * s <= (s - 2 * k) * (2 * h)
    <3>1. s - 2 * k \in Nat /\ s \in Nat /\ 2 * h \in Nat /\ s <= 2 * h
      BY <1>1, <1>3, <1>5, <1>8
    <3> QED
      BY <3>1, ProductsGrow
  <2>2. /\ (s - 2 * k) * s = s * s - 2 * (s * k)
        /\ (s - 2 * k) * (2 * h) = 2 * ((s - 2 * k) * h)
    BY <1>1, <1>3
  <2>3. s * k \in Nat /\ s * s \in Nat /\ s * H \in Nat /\ (s - 2 * k) * h \in Int
    BY <1>1, <1>3
  <2>4. s * s <= 2 * (s * H)
    BY <1>6, <2>1, <2>2, <2>3
  <2>5. s * s <= s * (2 * H)
    BY <1>1, <1>3, <2>4
  <2>6. s <= 2 * H
    BY <1>1, <1>3, <2>5, FactorsGrow
  <2> QED
    BY <1>1, <1>3, <1>4, <2>6
<1> QED
  BY <1>7, <1>8

\* A place within the radius that the box cuts off.
LEMMA CutOff ==
  ASSUME NEW p, Valid(p), NEW centre, Valid(centre), NEW r \in Nat \ {0},
         Within(p, centre, r), ~InBox(p, centre, r)
  PROVE  /\ Gap(p.lng, centre.lng) > r
         /\ Gap(p.lng, centre.lng) * Cos(centre.lat) * BoxDegree > r * Scale * EarthDegree
         /\ centre.lat = 0 /\ r < MaxLat => Gap(p.lng, centre.lng) > MaxLng
<1>1. ~InLongitude(p, centre, r)
  BY NearInLatitude DEF InBox
<1>2. /\ Gap(p.lng, centre.lng) > r
      /\ Gap(p.lng, centre.lng) * Cos(centre.lat) * BoxDegree > r * Scale * EarthDegree
  BY <1>1, BeyondTheWidth
<1>3. p.lng \in Int /\ centre.lng \in Int /\ MaxLng \in Int
  BY SearchAssumption DEF Valid
<1>4. Gap(p.lng, centre.lng) \in Nat
  BY <1>3, GapOf
<1>5. Gap(p.lng, centre.lng) <= MaxLng \/ Gap(p.lng, centre.lng) > MaxLng
  BY <1>3, <1>4
<1>6. ~(Gap(p.lng, centre.lng) <= r)
  BY <1>2, <1>4
<1> QED
  BY <1>2, <1>5, <1>6, NearOnEquator

\* A search over any finite table gives what is expected of it.
LEMMA SearchOfRows ==
  ASSUME IsFiniteSet(rows), \A x \in rows : Valid(x.at),
         NEW centre, Valid(centre), NEW radius \in Int
  PROVE  ExpectedSearch(rows, centre, radius, Nearby(rows, centre, radius))
<1> PICK r : r = EffectiveRadius(radius)
  OBVIOUS
<1>1. r \in Nat \ {0}
  BY SearchAssumption DEF EffectiveRadius
<1> DEFINE near == {x \in rows : Within(x.at, centre, r)}
           boxed == {x \in rows : InBox(x.at, centre, r) /\ Within(x.at, centre, r)}
           list == NearestFirst(boxed, centre)
<1>2. boxed \subseteq near /\ \A x \in near \ boxed : ~InBox(x.at, centre, r)
  OBVIOUS
<1>3. \A x \in near \ boxed :
         /\ Gap(x.at.lng, centre.lng) > r
         /\ Gap(x.at.lng, centre.lng) * Cos(centre.lat) * BoxDegree > r * Scale * EarthDegree
         /\ centre.lat = 0 /\ r < MaxLat => Gap(x.at.lng, centre.lng) > MaxLng
  BY <1>1, <1>2, CutOff
<1>4. IsFiniteSet(boxed) /\ \A x \in boxed : Haversine(x.at, centre) \in Int
  <2>1. \A x \in boxed : Haversine(x.at, centre) \in Nat
    BY <1>1, NearInLatitude
  <2>2. boxed \in SUBSET rows
    OBVIOUS
  <2> QED
    BY <2>1, <2>2, FS_Subset
<1>5. /\ list \in [1 .. Cardinality(boxed) -> boxed] /\ Range(list) = boxed
      /\ \A i, j \in DOMAIN list : i < j =>
            Haversine(list[i].at, centre) <= Haversine(list[j].at, centre)
  <2> HIDE DEF boxed
  <2> QED
    BY <1>4, NearestFirstLists
<1>6. Cardinality(boxed) \in Nat
  BY <1>4, FS_CardinalityType
<1>7. Len(list) = Cardinality(boxed)
  <2> HIDE DEF boxed, list
  <2> QED
    BY <1>5, <1>6
<1>8. Nearby(rows, centre, radius) = list
  BY DEF Nearby
<1> HIDE DEF list
<1>9. /\ Range(list) \subseteq near /\ Range(list) = boxed
      /\ Len(list) = Cardinality(Range(list))
  BY <1>2, <1>5, <1>7
<1> HIDE DEF boxed
<1> QED
  BY <1>3, <1>5, <1>8, <1>9 DEF ExpectedSearch

\* Whatever the calls have made of the table, a search finds the rows within the
\* radius, the nearest first, and misses only what the width of its box cuts off:
\* round a centre on the equator, the rows across the antimeridian.
THEOREM SearchesAreExact == Spec => []SearchExact
<1>1. StoreInv => SearchExact
  <2> SUFFICES ASSUME StoreInv, NEW centre \in Centres, NEW radius \in Radii
               PROVE  ExpectedSearch(rows, centre, radius, Nearby(rows, centre, radius))
    BY DEF SearchExact
  <2>1. \A x \in rows : Valid(x.at)
    BY StoreAssumption DEF StoreInv, TypeOK
  <2>2. Valid(centre) /\ radius \in Int
    BY StoreAssumption
  <2> QED
    BY <2>1, <2>2, SearchOfRows DEF StoreInv, StepsTyped
<1> QED
  BY <1>1, StoreTyping, PTL
=============================================================================
