--------------------------- MODULE RideRouteHandler ---------------------------
(***************************************************************************)
(* RideManager's RideRouteHandler: the ride and driver tables kept in      *)
(* memory, and the HTTP worker threads that run its three mutating         *)
(* handlers (ride request, ride status update, driver status update).      *)
(*                                                                         *)
(* The code takes mutex_ once per helper call, never for a whole handler,  *)
(* so a handler is a sequence of atomic steps: one action per lock         *)
(* section, database statement or message publication.  What a thread      *)
(* carries between two steps is its locals: the request it is serving      *)
(* (req) or its private copy of a ride record (rec).                       *)
(***************************************************************************)
EXTENDS Integers, Sequences, FiniteSets

CONSTANTS
    Threads,    \* worker threads of the HTTP server
    Riders,     \* rider identifiers
    Drivers,    \* driver identifiers
    Reported,   \* the statuses clients send in status updates
    Fares,      \* values of the "fare" field; a negative one stands for a
                \* field that is missing, unreadable or negative
    Named,      \* ride ids (or none) busy drivers name in their reports
    MaxRides,   \* bound: rides created during one run of the process
    MaxWallet,  \* bound: no further update of a ride whose driver owns more
    MaxNearby,  \* bound: length of the location gateway's answer
    Durable,    \* TRUE: a real MySQL; FALSE: no database, or the compiled stub
    DbFaults,   \* TRUE: a statement of a real MySQL may fail
    None        \* a value that is no ride, request, rider or driver

Status == {"requested", "pending_driver", "accepted", "in_progress",
           "completed", "cancelled"}

RideIds == 1 .. MaxRides
NoRideId == 0                  \* the empty string in currentRideId
Unpaid == -1                   \* SQL NULL, or no row in payments

Ride == [id : RideIds, rider : Riders, driver : Drivers, status : Status,
         fare : Nat, fareRecorded : BOOLEAN, paymentRecorded : BOOLEAN]

\* walletBalance and lifetimeEarnings only ever change together, by the same
\* amount: one field stands for both.
DriverState == [available : BOOLEAN, current : RideIds \cup {NoRideId},
                wallet : Nat]

\* The locals of handleRideRequest before the record is built.
Request == [rider : Riders, near : Seq(Drivers), driver : Drivers \cup {None}]

RideRow == [rider : Riders, driver : Drivers, status : Status,
            fare : Nat \cup {Unpaid}]

Steps == {"idle", "match", "number", "insert", "reserve", "accept", "credit",
          "lookup", "pay", "release", "write", "persist", "publish", "notify"}

ASSUME HandlerAssumption ==
    /\ MaxRides \in Nat \ {0}
    /\ MaxWallet \in Nat
    /\ MaxNearby \in Nat
    /\ Reported \subseteq Status
    /\ Fares \subseteq Int
    /\ Named \subseteq 0 .. MaxRides
    /\ Durable \in BOOLEAN
    /\ DbFaults \in BOOLEAN
    /\ None \notin Riders \cup Drivers
    /\ None \notin Ride /\ None \notin Request /\ None \notin RideRow

VARIABLES
    rides,         \* rides_
    drivers,       \* drivers_; an absent entry reads as the default one
    rideSequence,  \* rideSequence_
    pc,            \* the step each thread takes next
    req,           \* the request a thread is matching, or None
    rec,           \* a thread's copy of a ride record, or None
    rideRows,      \* table rides, by ride_identifier
    payments,      \* amount in table payments, by the ride it refers to
    lifecycle,     \* status in the last event sent to ride_lifecycle_events
    notices        \* status in the last message sent to driver_notifications

memory == <<rides, drivers, rideSequence>>
threads == <<pc, req, rec>>
database == <<rideRows, payments>>
brokers == <<lifecycle, notices>>
vars == <<memory, threads, database, brokers>>

-----------------------------------------------------------------------------
NoDriverState == [available |-> FALSE, current |-> NoRideId, wallet |-> 0]

MemoryInit ==
    /\ rides = [r \in RideIds |-> None]
    /\ drivers = [d \in Drivers |-> NoDriverState]
    /\ rideSequence = 1

ThreadsInit ==
    /\ pc = [t \in Threads |-> "idle"]
    /\ req = [t \in Threads |-> None]
    /\ rec = [t \in Threads |-> None]

Init ==
    /\ MemoryInit
    /\ ThreadsInit
    /\ rideRows = [r \in RideIds |-> None]
    /\ payments = [r \in RideIds |-> Unpaid]
    /\ lifecycle = [r \in RideIds |-> "none"]
    /\ notices = [r \in RideIds |-> "none"]

Goto(t, from, to) ==
    /\ pc[t] = from
    /\ pc' = [pc EXCEPT ![t] = to]

IsAvailable(d) == drivers[d].available /\ drivers[d].current = NoRideId

SetDriverAvailability(d, available, rideId) ==
    drivers' = [drivers EXCEPT
                  ![d].available = available,
                  ![d].current = IF available THEN NoRideId ELSE rideId]

-----------------------------------------------------------------------------
(* handleRideRequest *)

\* A request arrives and the location gateway answers.
StartRequest(t, rider, near) ==
    /\ Goto(t, "idle", "match")
    /\ req' = [req EXCEPT ![t] = [rider |-> rider, near |-> near, driver |-> None]]
    /\ UNCHANGED <<memory, rec, database, brokers>>

SelectDriver(t, d) ==
    /\ IsAvailable(d)
    /\ Goto(t, "match", "number")
    /\ req' = [req EXCEPT ![t].driver = d]
    /\ UNCHANGED <<memory, rec, database, brokers>>

\* The proximity loop asks for one candidate at a time.
TakeCandidate(t) ==
    /\ pc[t] = "match" /\ req[t].near # <<>>
    /\ SelectDriver(t, Head(req[t].near))

\* Variant: the loop never advances.
SkipNothing(t) ==
    /\ pc[t] = "match" /\ req[t].near # <<>>
    /\ ~IsAvailable(Head(req[t].near))
    /\ UNCHANGED vars

SkipCandidate(t) ==
    /\ pc[t] = "match" /\ req[t].near # <<>>
    /\ ~IsAvailable(Head(req[t].near))
    /\ req' = [req EXCEPT ![t].near = Tail(@)]
    /\ UNCHANGED <<memory, pc, rec, database, brokers>>

\* The fallback scan runs under one lock; the map's order is unspecified.
FallbackScan(t) ==
    /\ pc[t] = "match" /\ req[t].near = <<>>
    /\ \E d \in Drivers : SelectDriver(t, d)

\* 409: the scan found nobody.
RejectRequest(t) ==
    /\ Goto(t, "match", "idle")
    /\ req[t].near = <<>>
    /\ \A d \in Drivers : ~IsAvailable(d)
    /\ req' = [req EXCEPT ![t] = None]
    /\ UNCHANGED <<memory, rec, database, brokers>>

NewRide(id, rider, driver) ==
    [id |-> id, rider |-> rider, driver |-> driver, status |-> "pending_driver",
     fare |-> 0, fareRecorded |-> FALSE, paymentRecorded |-> FALSE]

\* Variant: the counter is read but not advanced.
NumberRideAgain(t) ==
    /\ rideSequence \in RideIds
    /\ Goto(t, "number", "insert")
    /\ rec' = [rec EXCEPT ![t] =
                 NewRide(rideSequence, req[t].rider, req[t].driver)]
    /\ req' = [req EXCEPT ![t] = None]
    /\ UNCHANGED <<memory, database, brokers>>

\* generateRideId and the construction of the record.
NumberRide(t) ==
    /\ rideSequence \in RideIds
    /\ Goto(t, "number", "insert")
    /\ rec' = [rec EXCEPT ![t] =
                 NewRide(rideSequence, req[t].rider, req[t].driver)]
    /\ rideSequence' = rideSequence + 1
    /\ req' = [req EXCEPT ![t] = None]
    /\ UNCHANGED <<rides, drivers, database, brokers>>

InsertRide(t) ==
    /\ Goto(t, "insert", "reserve")
    /\ rides' = [rides EXCEPT ![rec[t].id] = rec[t]]
    /\ UNCHANGED <<drivers, rideSequence, req, rec, database, brokers>>

\* Variant: a new ride is not persisted.
ReserveUnpersisted(t) ==
    /\ Goto(t, "reserve", "publish")
    /\ SetDriverAvailability(rec[t].driver, FALSE, rec[t].id)
    /\ UNCHANGED <<rides, rideSequence, req, rec, database, brokers>>

ReserveDriver(t) ==
    /\ Goto(t, "reserve", "persist")
    /\ SetDriverAvailability(rec[t].driver, FALSE, rec[t].id)
    /\ UNCHANGED <<rides, rideSequence, req, rec, database, brokers>>

-----------------------------------------------------------------------------
(* The tail both ride handlers share: persist, publish, notify, reply. *)

\* Variant: the update clause forgets the fare.
UpsertedStatus(ride) ==
    IF rideRows[ride.id] = None
    THEN [rider |-> ride.rider, driver |-> ride.driver,
          status |-> ride.status, fare |-> Unpaid]
    ELSE [rideRows[ride.id] EXCEPT !.status = ride.status]

\* INSERT ... ON DUPLICATE KEY UPDATE: an existing row keeps its rider and
\* driver.
Upserted(ride) ==
    LET fare == IF ride.fareRecorded THEN ride.fare ELSE Unpaid
    IN  IF rideRows[ride.id] = None
        THEN [rider |-> ride.rider, driver |-> ride.driver,
              status |-> ride.status, fare |-> fare]
        ELSE [rideRows[ride.id] EXCEPT !.status = ride.status, !.fare = fare]

\* persistRide ignores the result of the statement.
PersistRide(t) ==
    /\ Goto(t, "persist", "publish")
    /\ \/ /\ Durable
          /\ rideRows' = [rideRows EXCEPT ![rec[t].id] = Upserted(rec[t])]
       \/ /\ ~Durable \/ DbFaults
          /\ UNCHANGED rideRows
    /\ UNCHANGED <<memory, req, rec, payments, brokers>>

PublishRide(t) ==
    /\ Goto(t, "publish", "notify")
    /\ lifecycle' = [lifecycle EXCEPT ![rec[t].id] = rec[t].status]
    /\ UNCHANGED <<memory, req, rec, database, notices>>

\* The driver's queue, then the reply.
NotifyDriver(t) ==
    /\ Goto(t, "notify", "idle")
    /\ notices' = [notices EXCEPT ![rec[t].id] = rec[t].status]
    /\ rec' = [rec EXCEPT ![t] = None]
    /\ UNCHANGED <<memory, req, database, lifecycle>>

-----------------------------------------------------------------------------
(* handleRideStatusUpdate *)

\* Variants: a negative fare is accepted; a recorded fare is settled again.
SettlesAnyFare(ride, status, fare) ==
    status = "completed" /\ ~ride.fareRecorded
SettlesAgain(ride, status, fare) ==
    status = "completed" /\ fare >= 0

Settles(ride, status, fare) ==
    status = "completed" /\ ~ride.fareRecorded /\ fare >= 0

\* Variants: the flag is not set; every completion replaces
\* the fare, one that names none too.
UpdatedUnflagged(ride, status, fare) ==
    IF Settles(ride, status, fare)
    THEN [ride EXCEPT !.status = status, !.fare = fare]
    ELSE [ride EXCEPT !.status = status]
UpdatedRefared(ride, status, fare) ==
    IF status = "completed"
    THEN [ride EXCEPT !.status = status, !.fare = fare,
                      !.fareRecorded = @ \/ fare >= 0]
    ELSE [ride EXCEPT !.status = status]

Updated(ride, status, fare) ==
    IF Settles(ride, status, fare)
    THEN [ride EXCEPT !.status = status, !.fare = fare, !.fareRecorded = TRUE]
    ELSE [ride EXCEPT !.status = status]

\* The branch of the switch: no status is refused, whatever the ride's own.
Branch(ride, status, fare) ==
    CASE status = "accepted" -> "accept"
      [] Settles(ride, status, fare) -> "credit"
      [] status \in {"completed", "cancelled"}
           /\ ~Settles(ride, status, fare) -> "release"
      [] OTHER -> "write"

\* findRide copies the record under the lock; the switch works on the copy.
StartUpdate(t, r, status, fare) ==
    /\ rides[r] # None
    /\ drivers[rides[r].driver].wallet <= MaxWallet
    /\ Goto(t, "idle", Branch(rides[r], status, fare))
    /\ rec' = [rec EXCEPT ![t] = Updated(rides[r], status, fare)]
    /\ UNCHANGED <<memory, req, database, brokers>>

\* A "reason" that is no string throws after the driver was marked busy.
AcceptRide(t) ==
    /\ pc[t] = "accept"
    /\ SetDriverAvailability(rec[t].driver, FALSE, rec[t].id)
    /\ \/ /\ Goto(t, "accept", "write")
          /\ UNCHANGED rec
       \/ /\ Goto(t, "accept", "idle")
          /\ rec' = [rec EXCEPT ![t] = None]
    /\ UNCHANGED <<rides, rideSequence, req, database, brokers>>

\* Variant: the credit replaces the balance.
CreditReplaces(t) ==
    /\ Goto(t, "credit", "lookup")
    /\ drivers' = [drivers EXCEPT ![rec[t].driver].wallet = rec[t].fare]
    /\ UNCHANGED <<rides, rideSequence, req, rec, database, brokers>>

\* A fare of 0 is recorded but credits nothing.
CreditDriver(t) ==
    /\ Goto(t, "credit", "lookup")
    /\ drivers' = [drivers EXCEPT ![rec[t].driver].wallet = @ + rec[t].fare]
    /\ UNCHANGED <<rides, rideSequence, req, rec, database, brokers>>

\* The payment needs the primary key of the row this ride was persisted to.
LookupRide(t) ==
    /\ pc[t] = "lookup"
    /\ \/ rideRows[rec[t].id] # None /\ Goto(t, "lookup", "pay")
       \/ (rideRows[rec[t].id] = None \/ DbFaults) /\ Goto(t, "lookup", "release")
    /\ UNCHANGED <<memory, req, rec, database, brokers>>

\* Variant: the result of the statement is ignored.
PaymentAssumed(t) ==
    /\ Goto(t, "pay", "release")
    /\ \/ payments' = [payments EXCEPT ![rec[t].id] = rec[t].fare]
       \/ DbFaults /\ UNCHANGED payments
    /\ rec' = [rec EXCEPT ![t].paymentRecorded = TRUE]
    /\ UNCHANGED <<memory, req, rideRows, brokers>>

RecordPayment(t) ==
    /\ Goto(t, "pay", "release")
    /\ \/ /\ payments' = [payments EXCEPT ![rec[t].id] = rec[t].fare]
          /\ rec' = [rec EXCEPT ![t].paymentRecorded = TRUE]
       \/ /\ DbFaults
          /\ UNCHANGED <<payments, rec>>
    /\ UNCHANGED <<memory, req, rideRows, brokers>>

\* The driver becomes available, whichever ride he is on.
ReleaseDriver(t) ==
    /\ Goto(t, "release", "write")
    /\ SetDriverAvailability(rec[t].driver, TRUE, NoRideId)
    /\ UNCHANGED <<rides, rideSequence, req, rec, database, brokers>>

WriteBack(t) ==
    /\ Goto(t, "write", "persist")
    /\ rides' = [rides EXCEPT ![rec[t].id] = rec[t]]
    /\ UNCHANGED <<drivers, rideSequence, req, rec, database, brokers>>

-----------------------------------------------------------------------------
(* handleDriverStatusUpdate: one lock section.  Its event carries the      *)
(* reported flag and the wallet to another topic, which nothing here reads.*)
(* A busy driver names any ride, existing or not, or keeps the current one.*)
ReportDriver(d, available, rideId) ==
    /\ SetDriverAvailability(d, available, rideId)
    /\ UNCHANGED <<rides, rideSequence, threads, database, brokers>>

DriverReports ==
    \E d \in Drivers :
        \/ ReportDriver(d, TRUE, NoRideId)
        \/ \E r \in Named \cup {drivers[d].current} : ReportDriver(d, FALSE, r)

\* The process dies and is started again: only the database survives.
Restart ==
    /\ rides' = [r \in RideIds |-> None]
    /\ drivers' = [d \in Drivers |-> NoDriverState]
    /\ rideSequence' = 1
    /\ pc' = [t \in Threads |-> "idle"]
    /\ req' = [t \in Threads |-> None]
    /\ rec' = [t \in Threads |-> None]
    /\ lifecycle' = [r \in RideIds |-> "none"]
    /\ notices' = [r \in RideIds |-> "none"]
    /\ UNCHANGED database
-----------------------------------------------------------------------------
(* The system *)

Answers == UNION {[1 .. n -> Drivers] : n \in 0 .. MaxNearby}

\* Bound: no request once the ids still to be drawn are spoken for.
IdsLeft ==
    rideSequence + Cardinality({t \in Threads : pc[t] \in {"match", "number"}})
        <= MaxRides

ReceiveRequest(t) ==
    IdsLeft /\ \E rider \in Riders, near \in Answers : StartRequest(t, rider, near)

ReceiveUpdate(t, r) ==
    \E status \in Reported, fare \in Fares : StartUpdate(t, r, status, fare)

RequestStep(t) ==
    \/ TakeCandidate(t) \/ SkipCandidate(t) \/ FallbackScan(t)
    \/ RejectRequest(t) \/ NumberRide(t) \/ InsertRide(t) \/ ReserveDriver(t)

UpdateStep(t) ==
    \/ AcceptRide(t) \/ CreditDriver(t) \/ LookupRide(t) \/ RecordPayment(t)
    \/ ReleaseDriver(t) \/ WriteBack(t)

HandlerStep(t) ==
    \/ RequestStep(t) \/ UpdateStep(t)
    \/ PersistRide(t) \/ PublishRide(t) \/ NotifyDriver(t)

\* Clients send anything at any time.
Next ==
    \/ DriverReports
    \/ \E t \in Threads : ReceiveRequest(t)
    \/ \E t \in Threads, r \in RideIds : ReceiveUpdate(t, r)
    \/ \E t \in Threads : HandlerStep(t)

\* A thread that serves a call keeps running; nobody has to call.
Fairness == \A t \in Threads : WF_vars(HandlerStep(t))

Spec == Init /\ [][Next]_vars /\ Fairness

\* The threads that hold a copy of ride r.
InHand(r) == {t \in Threads : rec[t] # None /\ rec[t].id = r}

\* Disciplined clients: a ride's next update is sent only when the request or
\* the update before it was answered.
SerialNext ==
    \/ DriverReports
    \/ \E t \in Threads : ReceiveRequest(t)
    \/ \E t \in Threads, r \in RideIds : InHand(r) = {} /\ ReceiveUpdate(t, r)
    \/ \E t \in Threads : HandlerStep(t)

SerialSpec == Init /\ [][SerialNext]_vars /\ Fairness

\* Disciplined clients, and a process that may die at any moment.
CrashSpec == Init /\ [][SerialNext \/ Restart]_vars /\ Fairness
-----------------------------------------------------------------------------
(* Properties *)

\* The types of the state, and which locals a thread has at which step.
TypeOK ==
    /\ rides \in [RideIds -> Ride \cup {None}]
    /\ drivers \in [Drivers -> DriverState]
    /\ rideSequence \in 1 .. MaxRides + 1
    /\ pc \in [Threads -> Steps]
    /\ req \in [Threads -> Request \cup {None}]
    /\ rec \in [Threads -> Ride \cup {None}]
    /\ rideRows \in [RideIds -> RideRow \cup {None}]
    /\ payments \in [RideIds -> Nat \cup {Unpaid}]
    /\ lifecycle \in [RideIds -> Status \cup {"none"}]
    /\ notices \in [RideIds -> Status \cup {"none"}]
    /\ \A t \in Threads :
          /\ req[t] # None <=> pc[t] \in {"match", "number"}
          /\ pc[t] = "number" => req[t].driver \in Drivers
          /\ rec[t] # None <=> pc[t] \notin {"idle", "match", "number"}

SameParties(a, b) == a.rider = b.rider /\ a.driver = b.driver

\* Ride ids drawn by concurrent requests never clash, a ride being created is
\* not stored yet and nobody else works on it, and every other copy of a ride
\* in some thread's hands names the stored ride's rider and driver
\* (generateRideId's atomic counter, the copies findRide hands out).
RidesHaveOneOwner ==
    /\ \A r \in RideIds : rides[r] # None => rides[r].id = r /\ r < rideSequence
    /\ \A t \in Threads : rec[t] # None =>
          /\ rec[t].id < rideSequence
          /\ IF pc[t] = "insert"
             THEN rides[rec[t].id] = None /\ InHand(rec[t].id) = {t}
             ELSE /\ rides[rec[t].id] # None
                  /\ SameParties(rides[rec[t].id], rec[t])

\* No handler ever removes a ride or moves it to another rider or driver, not
\* even by writing back a stale copy of it (rides_[rideId] = record).
RidesKeepParties ==
    [][\A r \in RideIds : rides[r] # None =>
           rides'[r] # None /\ SameParties(rides'[r], rides[r])]_vars

\* Every call that reaches a handler is answered unless the process dies: the
\* proximity loop ends, and no failure leaves a call without a next step
\* (handleRideRequest, handleRideStatusUpdate).
EveryCallAnswered ==
    \A t \in Threads : pc[t] # "idle" ~> pc[t] = "idle"
=============================================================================
