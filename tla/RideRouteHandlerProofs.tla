------------------------ MODULE RideRouteHandlerProofs ------------------------
(***************************************************************************)
(* Proofs about the ride handlers, for any number of threads, riders,      *)
(* drivers and rides, any fares and any behaviour of the database.         *)
(***************************************************************************)
EXTENDS RideRouteHandler, TLAPS

LEMMA TypeInit == Init => TypeOK
  BY HandlerAssumption
  DEF Init, MemoryInit, ThreadsInit, TypeOK, DriverState, NoDriverState,
      RideIds, NoRideId, Unpaid, Steps, Status

\* setDriverAvailability keeps the driver table well-typed, and wallets.
LEMMA AvailabilityType ==
  ASSUME drivers \in [Drivers -> DriverState],
         NEW d \in Drivers, NEW available \in BOOLEAN,
         NEW rideId \in RideIds \cup {NoRideId},
         SetDriverAvailability(d, available, rideId)
  PROVE  /\ drivers' \in [Drivers -> DriverState]
         /\ \A e \in Drivers : drivers'[e].wallet = drivers[e].wallet
<1> DEFINE current == IF available THEN NoRideId ELSE rideId
<1>1. drivers[d] \in [available : BOOLEAN, current : RideIds \cup {NoRideId},
                      wallet : Nat]
  BY DEF DriverState
<1>2. drivers' = [drivers EXCEPT ![d] = [@ EXCEPT !.available = available,
                                                !.current = current]]
  BY DEF SetDriverAvailability
<1>3. current \in RideIds \cup {NoRideId}
  OBVIOUS
<1> QED
  BY <1>1, <1>2, <1>3 DEF DriverState

\* The candidates of a request stay drivers while the loop consumes them.
LEMMA CandidateType ==
  ASSUME NEW q \in Request, q.near # <<>>
  PROVE  /\ Head(q.near) \in Drivers
         /\ [q EXCEPT !.near = Tail(@)] \in Request
<1>1. q.near \in Seq(Drivers)
  BY DEF Request
<1>2. Head(q.near) \in Drivers /\ Tail(q.near) \in Seq(Drivers)
  BY <1>1
<1> QED
  BY <1>2 DEF Request

\* Choosing a driver keeps the types.
LEMMA SelectType ==
  ASSUME TypeOK, NEW t \in Threads, NEW d \in Drivers, SelectDriver(t, d)
  PROVE  TypeOK'
<1>1. pc[t] = "match" /\ req[t] \in Request
  BY DEF SelectDriver, Goto, TypeOK
<1>2. [req[t] EXCEPT !.driver = d] \in Request
  BY <1>1 DEF Request
<1>3. req' \in [Threads -> Request \cup {None}]
  BY <1>2 DEF SelectDriver, TypeOK
<1>4. \A u \in Threads :
          /\ pc'[u] = IF u = t THEN "number" ELSE pc[u]
          /\ req'[u] = IF u = t THEN [req[t] EXCEPT !.driver = d] ELSE req[u]
  BY DEF SelectDriver, Goto, TypeOK
<1>5. [req[t] EXCEPT !.driver = d] # None /\ [req[t] EXCEPT !.driver = d].driver = d
  BY <1>1, <1>2, HandlerAssumption DEF Request
<1>6. pc' \in [Threads -> Steps]
  BY DEF SelectDriver, Goto, TypeOK, Steps
<1>7. \A u \in Threads :
          /\ req'[u] # None <=> pc'[u] \in {"match", "number"}
          /\ pc'[u] = "number" => req'[u].driver \in Drivers
          /\ rec'[u] # None <=> pc'[u] \notin {"idle", "match", "number"}
  BY <1>1, <1>4, <1>5 DEF SelectDriver, TypeOK
<1> QED
  BY <1>3, <1>6, <1>7 DEF SelectDriver, TypeOK, memory, database, brokers

\* The step of a request keeps the types.
LEMMA TypeRequest ==
  ASSUME TypeOK, NEW t \in Threads,
         RequestStep(t) \/ (\E rider \in Riders, near \in Answers :
                               StartRequest(t, rider, near))
  PROVE  TypeOK'
<1> USE HandlerAssumption DEF TypeOK, Goto, Steps, memory, database, brokers
<1>1. CASE \E rider \in Riders, near \in Answers : StartRequest(t, rider, near)
  <2> PICK rider \in Riders, near \in Answers : StartRequest(t, rider, near)
    BY <1>1
  <2>1. near \in Seq(Drivers)
    BY DEF Answers
  <2>2. [rider |-> rider, near |-> near, driver |-> None] \in Request
    BY <2>1 DEF Request
  <2> QED
    BY <2>2 DEF StartRequest
<1>2. CASE TakeCandidate(t)
  <2>1. Head(req[t].near) \in Drivers
    BY <1>2, CandidateType DEF TakeCandidate
  <2> QED
    BY <1>2, <2>1, SelectType DEF TakeCandidate
<1>3. CASE SkipCandidate(t)
  <2>1. req[t] \in Request /\ pc[t] = "match"
    BY <1>3 DEF SkipCandidate
  <2>2. [req[t] EXCEPT !.near = Tail(@)] \in Request
    BY <1>3, <2>1, CandidateType DEF SkipCandidate
  <2> QED
    BY <1>3, <2>1, <2>2 DEF SkipCandidate
<1>4. CASE FallbackScan(t)
  BY <1>4, SelectType DEF FallbackScan
<1>5. CASE RejectRequest(t)
  BY <1>5 DEF RejectRequest
<1>6. CASE NumberRide(t)
  <2>1. NewRide(rideSequence, req[t].rider, req[t].driver) \in Ride
    BY <1>6 DEF NumberRide, NewRide, Ride, Request, Status
  <2> QED
    BY <1>6, <2>1 DEF NumberRide, RideIds
<1>7. CASE InsertRide(t)
  BY <1>7 DEF InsertRide, Ride
<1>8. CASE ReserveDriver(t)
  <2>1. rec[t] \in Ride
    BY <1>8 DEF ReserveDriver
  <2>2. drivers' \in [Drivers -> DriverState]
    BY <1>8, <2>1, AvailabilityType DEF ReserveDriver, Ride
  <2> QED
    BY <1>8, <2>2 DEF ReserveDriver
<1> QED
  BY <1>1, <1>2, <1>3, <1>4, <1>5, <1>6, <1>7, <1>8 DEF RequestStep

\* What an update makes of a ride is a ride, and its first step is a step
\* that works on a ride.
LEMMA UpdatedType ==
  ASSUME NEW ride \in Ride, NEW status \in Status, NEW fare \in Int
  PROVE  /\ Updated(ride, status, fare) \in Ride
         /\ Updated(ride, status, fare).id = ride.id
         /\ SameParties(Updated(ride, status, fare), ride)
         /\ Branch(ride, status, fare) \in {"accept", "credit", "release", "write"}
<1>1. CASE Settles(ride, status, fare)
  <2>1. fare \in Nat
    BY <1>1 DEF Settles
  <2> QED
    BY <1>1, <2>1 DEF Updated, Branch, Ride, SameParties, Settles
<1>2. CASE ~Settles(ride, status, fare)
  BY <1>2 DEF Updated, Branch, Ride, SameParties, Settles
<1> QED
  BY <1>1, <1>2

\* The steps of an update keep the types.
LEMMA TypeUpdate ==
  ASSUME TypeOK, NEW t \in Threads,
         UpdateStep(t) \/ (\E r \in RideIds : ReceiveUpdate(t, r))
  PROVE  TypeOK'
<1> USE HandlerAssumption DEF TypeOK, Goto, Steps, memory, database, brokers
<1>1. CASE \E r \in RideIds : ReceiveUpdate(t, r)
  <2>1. PICK r \in RideIds, status \in Reported, fare \in Fares :
               StartUpdate(t, r, status, fare)
    BY <1>1 DEF ReceiveUpdate
  <2>2. rides[r] \in Ride /\ status \in Status /\ fare \in Int
    BY <2>1 DEF StartUpdate
  <2>3. /\ Updated(rides[r], status, fare) \in Ride
        /\ Branch(rides[r], status, fare) \in {"accept", "credit", "release", "write"}
    BY <2>2, UpdatedType
  <2> QED
    BY <2>1, <2>3 DEF StartUpdate
<1>2. CASE AcceptRide(t)
  <2>1. rec[t] \in Ride
    BY <1>2 DEF AcceptRide
  <2>2. drivers' \in [Drivers -> DriverState]
    BY <1>2, <2>1, AvailabilityType DEF AcceptRide, Ride
  <2> QED
    BY <1>2, <2>2 DEF AcceptRide
<1>3. CASE CreditDriver(t)
  <2>1. rec[t] \in Ride
    BY <1>3 DEF CreditDriver
  <2>2. /\ rec[t].driver \in Drivers /\ rec[t].fare \in Nat
        /\ drivers[rec[t].driver] \in DriverState
    BY <2>1 DEF Ride
  <2>3. [drivers[rec[t].driver] EXCEPT !.wallet = @ + rec[t].fare] \in DriverState
    BY <2>2 DEF DriverState
  <2>4. drivers' \in [Drivers -> DriverState]
    BY <1>3, <2>2, <2>3 DEF CreditDriver
  <2> QED
    BY <1>3, <2>4 DEF CreditDriver
<1>4. CASE LookupRide(t)
  BY <1>4 DEF LookupRide
<1>5. CASE RecordPayment(t)
  <2>1. rec[t] \in Ride
    BY <1>5 DEF RecordPayment
  <2>2. [rec[t] EXCEPT !.paymentRecorded = TRUE] \in Ride
    BY <2>1 DEF Ride
  <2>3. payments' \in [RideIds -> Nat \cup {Unpaid}]
    BY <1>5, <2>1 DEF RecordPayment, Ride
  <2>4. rec' \in [Threads -> Ride \cup {None}]
    BY <1>5, <2>2 DEF RecordPayment
  <2>5. \A u \in Threads : rec'[u] # None <=> rec[u] # None
    BY <1>5, <2>1, <2>2 DEF RecordPayment
  <2> QED
    BY <1>5, <2>3, <2>4, <2>5 DEF RecordPayment
<1>6. CASE ReleaseDriver(t)
  <2>1. rec[t] \in Ride
    BY <1>6 DEF ReleaseDriver
  <2>2. drivers' \in [Drivers -> DriverState]
    BY <1>6, <2>1, AvailabilityType DEF ReleaseDriver, Ride
  <2> QED
    BY <1>6, <2>2 DEF ReleaseDriver
<1>7. CASE WriteBack(t)
  BY <1>7 DEF WriteBack, Ride
<1> QED
  BY <1>1, <1>2, <1>3, <1>4, <1>5, <1>6, <1>7 DEF UpdateStep

\* The common tail of both handlers keeps the types.
LEMMA TypeTail ==
  ASSUME TypeOK, NEW t \in Threads,
         PersistRide(t) \/ PublishRide(t) \/ NotifyDriver(t)
  PROVE  TypeOK'
<1> USE HandlerAssumption DEF TypeOK, Goto, Steps, memory, database, brokers
<1>1. rec[t] \in Ride
  BY DEF PersistRide, PublishRide, NotifyDriver
<1>2. CASE PersistRide(t)
  <2>1. Upserted(rec[t]) \in RideRow
    <3> DEFINE fare == IF rec[t].fareRecorded THEN rec[t].fare ELSE Unpaid
    <3>1. fare \in Nat \cup {Unpaid} /\ rec[t].status \in Status
      BY <1>1 DEF Ride
    <3>2. CASE rideRows[rec[t].id] = None
      BY <1>1, <3>1, <3>2 DEF Upserted, Ride, RideRow
    <3>3. CASE rideRows[rec[t].id] # None
      <4>1. rideRows[rec[t].id] \in RideRow
        BY <1>1, <3>3 DEF Ride
      <4>2. [rideRows[rec[t].id] EXCEPT !.status = rec[t].status, !.fare = fare]
              \in RideRow
        BY <3>1, <4>1 DEF RideRow
      <4> QED
        BY <3>3, <4>2 DEF Upserted
    <3> QED
      BY <3>2, <3>3
  <2> QED
    BY <1>2, <2>1 DEF PersistRide
<1>3. CASE PublishRide(t)
  BY <1>1, <1>3 DEF PublishRide, Ride
<1>4. CASE NotifyDriver(t)
  BY <1>1, <1>4 DEF NotifyDriver, Ride
<1> QED
  BY <1>2, <1>3, <1>4

\* What a driver reports about himself.
LEMMA ReportOf ==
  ASSUME TypeOK, DriverReports
  PROVE  \E d \in Drivers, a \in BOOLEAN, r \in RideIds \cup {NoRideId} :
             ReportDriver(d, a, r)
<1>1. \A d \in Drivers : drivers[d].current \in RideIds \cup {NoRideId}
  BY DEF TypeOK, DriverState
<1>2. Named \subseteq RideIds \cup {NoRideId}
  BY HandlerAssumption DEF RideIds, NoRideId
<1>3. PICK d \in Drivers :
           \/ ReportDriver(d, TRUE, NoRideId)
           \/ \E r \in Named \cup {drivers[d].current} : ReportDriver(d, FALSE, r)
  BY DEF DriverReports
<1>4. CASE ReportDriver(d, TRUE, NoRideId)
  BY <1>4
<1>5. CASE \E r \in Named \cup {drivers[d].current} : ReportDriver(d, FALSE, r)
  BY <1>1, <1>2, <1>5
<1> QED
  BY <1>3, <1>4, <1>5

LEMMA TypeStep == TypeOK /\ [Next]_vars => TypeOK'
<1> SUFFICES ASSUME TypeOK, [Next]_vars PROVE TypeOK'
  OBVIOUS
<1>1. CASE DriverReports
  <2>1. PICK d \in Drivers, a \in BOOLEAN, r \in RideIds \cup {NoRideId} :
               ReportDriver(d, a, r)
    BY <1>1, ReportOf
  <2>2. drivers' \in [Drivers -> DriverState]
    BY <2>1, AvailabilityType DEF ReportDriver, TypeOK
  <2> QED
    BY <2>1, <2>2 DEF ReportDriver, TypeOK, threads, database, brokers
<1>2. ASSUME NEW t \in Threads, ReceiveRequest(t) PROVE TypeOK'
  BY <1>2, TypeRequest DEF ReceiveRequest
<1>3. ASSUME NEW t \in Threads, NEW r \in RideIds, ReceiveUpdate(t, r) PROVE TypeOK'
  BY <1>3, TypeUpdate
<1>4. ASSUME NEW t \in Threads, HandlerStep(t) PROVE TypeOK'
  BY <1>4, TypeRequest, TypeUpdate, TypeTail DEF HandlerStep
<1>5. CASE UNCHANGED vars
  BY <1>5 DEF vars, memory, threads, database, brokers, TypeOK
<1> QED
  BY <1>1, <1>2, <1>3, <1>4, <1>5 DEF Next

\* The ride and driver tables, the locals of every thread, the database and the
\* broker channels keep their types whatever calls arrive.
THEOREM TypeCorrect == Spec => []TypeOK
  BY TypeInit, TypeStep, PTL DEF Spec

-----------------------------------------------------------------------------
(* One owner per ride id.  RidesHaveOneOwner, split into clauses about one  *)
(* thing each, is inductive with the types: that a thread about to insert   *)
(* works alone on its id is why concurrent requests never clash.            *)

IdsDrawn ==
  /\ \A r \in RideIds : rides[r] # None => rides[r].id = r /\ r < rideSequence
  /\ \A t \in Threads : rec[t] # None => rec[t].id < rideSequence

NewRidesAlone ==
  \A t \in Threads : pc[t] = "insert" =>
      /\ rides[rec[t].id] = None
      /\ \A u \in Threads : rec[u] # None /\ rec[u].id = rec[t].id => u = t

CopiesAgree ==
  \A t \in Threads : rec[t] # None /\ pc[t] # "insert" =>
      rides[rec[t].id] # None /\ SameParties(rides[rec[t].id], rec[t])

OwnerInv == TypeOK /\ IdsDrawn /\ NewRidesAlone /\ CopiesAgree

LEMMA OwnerInvImplies == OwnerInv => RidesHaveOneOwner
<1> SUFFICES ASSUME OwnerInv, NEW t \in Threads, rec[t] # None
             PROVE  /\ rec[t].id < rideSequence
                    /\ IF pc[t] = "insert"
                       THEN rides[rec[t].id] = None /\ InHand(rec[t].id) = {t}
                       ELSE /\ rides[rec[t].id] # None
                            /\ SameParties(rides[rec[t].id], rec[t])
  BY DEF RidesHaveOneOwner, OwnerInv, IdsDrawn
<1>1. pc[t] = "insert" => InHand(rec[t].id) = {t}
  BY DEF InHand, OwnerInv, NewRidesAlone
<1> QED
  BY <1>1 DEF OwnerInv, IdsDrawn, NewRidesAlone, CopiesAgree

LEMMA OwnerInit == Init => OwnerInv
  BY TypeInit
  DEF Init, MemoryInit, ThreadsInit, OwnerInv, IdsDrawn, NewRidesAlone, CopiesAgree

\* A step that neither stores a ride nor starts work on one: every thread
\* keeps its copy, up to flags, or drops it.
LEMMA OwnerKept ==
  ASSUME OwnerInv, TypeOK',
         rides' = rides, rideSequence' = rideSequence,
         \A u \in Threads :
            /\ pc'[u] = "insert" <=> pc[u] = "insert"
            /\ rec'[u] # None => /\ rec[u] # None /\ rec'[u].id = rec[u].id
                                 /\ SameParties(rec'[u], rec[u])
  PROVE  OwnerInv'
<1>1. IdsDrawn'
  BY DEF OwnerInv, IdsDrawn
<1>2. NewRidesAlone'
  BY DEF OwnerInv, NewRidesAlone, TypeOK
<1>3. CopiesAgree'
  BY DEF OwnerInv, CopiesAgree, SameParties
<1> QED
  BY <1>1, <1>2, <1>3 DEF OwnerInv

\* Drawing an id: nobody holds or stores a ride with the counter's value.
LEMMA OwnerNumber ==
  ASSUME OwnerInv, TypeOK', NEW t \in Threads, NumberRide(t)
  PROVE  OwnerInv'
<1> DEFINE new == NewRide(rideSequence, req[t].rider, req[t].driver)
<1>1. /\ rideSequence \in RideIds /\ rideSequence' = rideSequence + 1
      /\ rideSequence \in Nat /\ rides' = rides /\ new.id = rideSequence
  BY DEF NumberRide, OwnerInv, TypeOK, RideIds, NewRide
<1>2. \A u \in Threads : /\ rec'[u] = IF u = t THEN new ELSE rec[u]
                         /\ pc'[u] = IF u = t THEN "insert" ELSE pc[u]
  BY DEF NumberRide, OwnerInv, TypeOK, Goto
<1>3. rides[rideSequence] = None
  BY <1>1 DEF OwnerInv, IdsDrawn
<1>4. \A u \in Threads : rec[u] # None =>
         /\ rec[u].id \in Nat /\ rec[u].id < rideSequence
         /\ rec[u].id # rideSequence
  BY <1>1 DEF OwnerInv, IdsDrawn, TypeOK, Ride, RideIds
<1>5. IdsDrawn'
  BY <1>1, <1>2, <1>4 DEF OwnerInv, IdsDrawn, RideIds
<1> HIDE DEF new
<1>6. NewRidesAlone'
  <2>1. \A u \in Threads : pc[u] = "insert" => rec[u] # None
    BY DEF OwnerInv, TypeOK
  <2> QED
    BY <1>1, <1>2, <1>3, <1>4, <2>1 DEF OwnerInv, NewRidesAlone
<1>7. CopiesAgree'
  BY <1>1, <1>2 DEF OwnerInv, CopiesAgree
<1> QED
  BY <1>5, <1>6, <1>7 DEF OwnerInv

\* Storing a ride under its id: a new one where nothing was, or a copy over
\* the ride it was taken from.
LEMMA OwnerStored ==
  ASSUME OwnerInv, TypeOK', NEW t \in Threads, InsertRide(t) \/ WriteBack(t)
  PROVE  OwnerInv'
<1> DEFINE r == rec[t].id
<1>1. /\ rec[t] \in Ride /\ rec[t] # None /\ r \in RideIds
      /\ rec' = rec /\ rideSequence' = rideSequence
  BY DEF InsertRide, WriteBack, OwnerInv, TypeOK, Goto, Ride
<1>2. rides'[r] = rec[t] /\ \A s \in RideIds : s # r => rides'[s] = rides[s]
  BY <1>1 DEF InsertRide, WriteBack, OwnerInv, TypeOK
<1>3. \A u \in Threads : pc'[u] = "insert" <=> pc[u] = "insert" /\ u # t
  BY DEF InsertRide, WriteBack, OwnerInv, TypeOK, Goto
<1>4. \A u \in Threads : rec[u] # None => rec[u].id \in RideIds
  BY DEF OwnerInv, TypeOK, Ride
<1>5. ASSUME NEW u \in Threads, rec[u] # None, rec[u].id = r, u # t
      PROVE  pc[u] # "insert" /\ SameParties(rec[t], rec[u])
  <2>1. pc[u] # "insert" /\ pc[t] # "insert"
    BY <1>1, <1>5 DEF OwnerInv, NewRidesAlone
  <2> QED
    BY <1>1, <1>5, <2>1 DEF OwnerInv, CopiesAgree, SameParties
<1>6. IdsDrawn'
  BY <1>1, <1>2 DEF OwnerInv, IdsDrawn
<1>7. NewRidesAlone'
  <2>1. \A u \in Threads : pc[u] = "insert" => rec[u] # None
    BY DEF OwnerInv, TypeOK
  <2> QED
    BY <1>1, <1>2, <1>3, <1>4, <1>5, <2>1 DEF OwnerInv, NewRidesAlone
<1>8. CopiesAgree'
  <2> SUFFICES ASSUME NEW u \in Threads, rec[u] # None, pc'[u] # "insert"
               PROVE  rides'[rec[u].id] # None /\ SameParties(rides'[rec[u].id], rec[u])
    BY <1>1 DEF CopiesAgree
  <2>1. CASE u = t
    BY <1>1, <1>2, <2>1 DEF SameParties
  <2>2. CASE u # t /\ rec[u].id = r
    BY <1>1, <1>2, <1>5, <2>2
  <2>3. CASE u # t /\ rec[u].id # r
    BY <1>2, <1>3, <1>4, <2>3 DEF OwnerInv, CopiesAgree
  <2> QED
    BY <2>1, <2>2, <2>3
<1> QED
  BY <1>6, <1>7, <1>8 DEF OwnerInv

\* Starting an update: the copy is of a stored ride, which nobody is creating.
LEMMA OwnerUpdate ==
  ASSUME OwnerInv, TypeOK', NEW t \in Threads, NEW r \in RideIds, ReceiveUpdate(t, r)
  PROVE  OwnerInv'
<1>1. PICK status \in Reported, fare \in Fares : StartUpdate(t, r, status, fare)
  BY DEF ReceiveUpdate
<1> DEFINE copy == Updated(rides[r], status, fare)
<1>2. rides[r] \in Ride /\ status \in Status /\ fare \in Int
  BY <1>1, HandlerAssumption DEF StartUpdate, OwnerInv, TypeOK
<1>3. /\ copy.id = rides[r].id /\ SameParties(copy, rides[r])
      /\ Branch(rides[r], status, fare) # "insert"
  BY <1>2, UpdatedType
<1>4. copy.id = r /\ r < rideSequence /\ rides[r] # None
  BY <1>1, <1>3 DEF StartUpdate, OwnerInv, IdsDrawn
<1>5. /\ rides' = rides /\ rideSequence' = rideSequence
      /\ pc[t] = "idle"
      /\ \A u \in Threads : /\ rec'[u] = IF u = t THEN copy ELSE rec[u]
                            /\ u # t => pc'[u] = pc[u]
      /\ pc'[t] # "insert"
  BY <1>1, <1>3 DEF StartUpdate, OwnerInv, TypeOK, Goto, memory
<1> HIDE DEF copy
<1>6. IdsDrawn'
  BY <1>4, <1>5 DEF OwnerInv, IdsDrawn
<1>7. NewRidesAlone'
  BY <1>4, <1>5 DEF OwnerInv, NewRidesAlone
<1>8. CopiesAgree'
  BY <1>3, <1>4, <1>5 DEF OwnerInv, CopiesAgree, SameParties
<1> QED
  BY <1>6, <1>7, <1>8 DEF OwnerInv

LEMMA OwnerStep == OwnerInv /\ [Next]_vars => OwnerInv'
<1> SUFFICES ASSUME OwnerInv, [Next]_vars PROVE OwnerInv'
  OBVIOUS
<1> USE DEF Goto, memory, threads, database, brokers
<1>1. TypeOK'
  BY TypeStep DEF OwnerInv
<1>2. CASE DriverReports
  BY <1>1, <1>2, OwnerKept DEF DriverReports, ReportDriver, SameParties
<1>3. ASSUME NEW t \in Threads, ReceiveRequest(t) PROVE OwnerInv'
  <2>1. PICK rider \in Riders, near \in Answers : StartRequest(t, rider, near)
    BY <1>3 DEF ReceiveRequest
  <2> QED
    BY <1>1, <2>1, OwnerKept DEF StartRequest, SameParties, OwnerInv, TypeOK
<1>4. ASSUME NEW t \in Threads, NEW r \in RideIds, ReceiveUpdate(t, r)
      PROVE  OwnerInv'
  BY <1>1, <1>4, OwnerUpdate
<1>5. ASSUME NEW t \in Threads, RequestStep(t) PROVE OwnerInv'
  <2> USE DEF OwnerInv, TypeOK, SameParties
  <2>1. ASSUME NEW d \in Drivers, SelectDriver(t, d) PROVE OwnerInv'
    BY <1>1, <2>1, OwnerKept DEF SelectDriver
  <2>2. CASE TakeCandidate(t)
    <3>1. Head(req[t].near) \in Drivers
      BY <2>2, CandidateType DEF TakeCandidate
    <3> QED
      BY <2>1, <2>2, <3>1 DEF TakeCandidate
  <2>3. CASE SkipCandidate(t)
    BY <1>1, <2>3, OwnerKept DEF SkipCandidate
  <2>4. CASE FallbackScan(t)
    BY <2>1, <2>4 DEF FallbackScan
  <2>5. CASE RejectRequest(t)
    BY <1>1, <2>5, OwnerKept DEF RejectRequest
  <2>6. CASE NumberRide(t)
    BY <1>1, <2>6, OwnerNumber
  <2>7. CASE InsertRide(t)
    BY <1>1, <2>7, OwnerStored
  <2>8. CASE ReserveDriver(t)
    BY <1>1, <2>8, OwnerKept DEF ReserveDriver
  <2> QED
    BY <1>5, <2>2, <2>3, <2>4, <2>5, <2>6, <2>7, <2>8 DEF RequestStep
<1>6. ASSUME NEW t \in Threads, UpdateStep(t) PROVE OwnerInv'
  <2> USE DEF OwnerInv, TypeOK, SameParties
  <2>1. CASE AcceptRide(t)
    BY <1>1, <2>1, OwnerKept DEF AcceptRide
  <2>2. CASE CreditDriver(t)
    BY <1>1, <2>2, OwnerKept DEF CreditDriver
  <2>3. CASE LookupRide(t)
    BY <1>1, <2>3, OwnerKept DEF LookupRide
  <2>4. CASE RecordPayment(t)
    <3>1. rec[t] \in Ride /\ rec[t] # None
      BY <2>4 DEF RecordPayment
    <3>2. \A u \in Threads : rec'[u] # None =>
            rec[u] # None /\ rec'[u].id = rec[u].id /\ SameParties(rec'[u], rec[u])
      BY <2>4, <3>1 DEF RecordPayment, Ride
    <3>3. \A u \in Threads : pc'[u] = "insert" <=> pc[u] = "insert"
      BY <2>4 DEF RecordPayment
    <3> QED
      BY <1>1, <2>4, <3>2, <3>3, OwnerKept DEF RecordPayment
  <2>5. CASE ReleaseDriver(t)
    BY <1>1, <2>5, OwnerKept DEF ReleaseDriver
  <2>6. CASE WriteBack(t)
    BY <1>1, <2>6, OwnerStored
  <2> QED
    BY <1>6, <2>1, <2>2, <2>3, <2>4, <2>5, <2>6 DEF UpdateStep
<1>7. ASSUME NEW t \in Threads, PersistRide(t) \/ PublishRide(t) \/ NotifyDriver(t)
      PROVE  OwnerInv'
  BY <1>1, <1>7, OwnerKept
  DEF PersistRide, PublishRide, NotifyDriver, OwnerInv, TypeOK, SameParties
<1>8. CASE UNCHANGED vars
  BY <1>1, <1>8, OwnerKept DEF vars, SameParties
<1> QED
  BY <1>2, <1>3, <1>4, <1>5, <1>6, <1>7, <1>8 DEF Next, HandlerStep

\* However many requests and updates run at once, the ids drawn never clash, a
\* ride being created belongs to its creator alone, and every copy an update
\* works on names the stored ride's rider and driver.
THEOREM OneOwner == Spec => []RidesHaveOneOwner
  BY OwnerInit, OwnerStep, OwnerInvImplies, PTL DEF Spec

\* Only a ride's own insertion and the write-back of a copy of it store a ride.
LEMMA PartiesStep ==
  ASSUME OwnerInv, Next, NEW r \in RideIds, rides[r] # None
  PROVE  rides'[r] # None /\ SameParties(rides'[r], rides[r])
<1> USE DEF Goto, memory, threads, database, brokers
<1>1. ASSUME NEW t \in Threads, InsertRide(t) \/ WriteBack(t)
      PROVE  rides'[r] # None /\ SameParties(rides'[r], rides[r])
  <2>1. /\ rec[t] \in Ride /\ rec[t] # None
        /\ rides' = [rides EXCEPT ![rec[t].id] = rec[t]]
    BY <1>1 DEF InsertRide, WriteBack, OwnerInv, TypeOK
  <2>2. CASE rec[t].id = r
    <3>1. pc[t] # "insert"
      BY <2>2 DEF OwnerInv, NewRidesAlone
    <3>2. SameParties(rides[r], rec[t])
      BY <2>1, <2>2, <3>1 DEF OwnerInv, CopiesAgree
    <3> QED
      BY <2>1, <2>2, <3>2 DEF SameParties, OwnerInv, TypeOK
  <2>3. CASE rec[t].id # r
    BY <2>1, <2>3 DEF SameParties, OwnerInv, TypeOK
  <2> QED
    BY <2>2, <2>3
<1>2. CASE rides' = rides
  BY <1>2 DEF SameParties
<1>3. CASE DriverReports
  BY <1>2, <1>3 DEF DriverReports, ReportDriver
<1>4. ASSUME NEW t \in Threads, ReceiveRequest(t) PROVE rides' = rides
  BY <1>4 DEF ReceiveRequest, StartRequest
<1>5. ASSUME NEW t \in Threads, NEW s \in RideIds, ReceiveUpdate(t, s)
      PROVE  rides' = rides
  BY <1>5 DEF ReceiveUpdate, StartUpdate
<1>6. ASSUME NEW t \in Threads, HandlerStep(t)
      PROVE  InsertRide(t) \/ WriteBack(t) \/ rides' = rides
  <2>1. RequestStep(t) => InsertRide(t) \/ rides' = rides
    BY DEF RequestStep, TakeCandidate, SkipCandidate, FallbackScan, SelectDriver,
           RejectRequest, NumberRide, ReserveDriver
  <2>2. UpdateStep(t) => WriteBack(t) \/ rides' = rides
    BY DEF UpdateStep, AcceptRide, CreditDriver, LookupRide, RecordPayment,
           ReleaseDriver
  <2>3. PersistRide(t) \/ PublishRide(t) \/ NotifyDriver(t) => rides' = rides
    BY DEF PersistRide, PublishRide, NotifyDriver
  <2> QED
    BY <1>6, <2>1, <2>2, <2>3 DEF HandlerStep
<1> QED
  BY <1>1, <1>2, <1>3, <1>4, <1>5, <1>6 DEF Next

\* A ride is never lost and never changes hands, although updates write whole
\* records back from copies that may be stale.
THEOREM KeepParties == Spec => RidesKeepParties
<1>1. OwnerInv /\ [Next]_vars =>
        [\A r \in RideIds : rides[r] # None =>
            rides'[r] # None /\ SameParties(rides'[r], rides[r])]_vars
  BY PartiesStep
<1> QED
  BY <1>1, OwnerInit, OwnerStep, PTL DEF Spec, RidesKeepParties
=============================================================================
