-------------------------- MODULE RideSettlementProofs --------------------------
(***************************************************************************)
(* When the updates of one ride are sent one after the other, the ride     *)
(* handlers implement the ledger, and drivers, payments, the rides table   *)
(* and both brokers agree on what was paid and told; when they race, no    *)
(* driver is left short.  For any number of threads, riders, drivers and   *)
(* rides and any fares.                                                    *)
(***************************************************************************)
EXTENDS RideSettlement, RideRouteHandlerProofs, SetInduction

\* What a ride record says its driver was paid.
RecordedFare(ride) == IF ride # None /\ ride.fareRecorded THEN ride.fare ELSE Unpaid

\* The steps of an update between the credit and the write-back.
Unwritten == {"lookup", "pay", "release", "write"}

\* One thread at a time has a ride in hand.
OneAtATime ==
  \A t, u \in Threads :
      rec[t] # None /\ rec[u] # None /\ rec[t].id = rec[u].id => t = u

\* What the thread's copy says about money, against the stored record.
MoneyOf(t) ==
  rec[t] # None =>
      /\ pc[t] = "insert" => RecordedFare(rec[t]) = Unpaid
      /\ pc[t] = "credit" =>
            /\ rec[t].fareRecorded /\ rec[t].fare \in Fares \cap Nat
            /\ RecordedFare(rides[rec[t].id]) = Unpaid
      /\ pc[t] \in Unwritten =>
            RecordedFare(rides[rec[t].id]) \in {Unpaid, RecordedFare(rec[t])}
      /\ pc[t] \in {"reserve", "accept", "persist", "publish", "notify"} =>
            RecordedFare(rides[rec[t].id]) = RecordedFare(rec[t])

MoneyAgrees == \A t \in Threads : MoneyOf(t)

SerialInv == OwnerInv /\ OneAtATime /\ MoneyAgrees

LEMMA SerialIsNext == [SerialNext]_vars => [Next]_vars
  BY DEF SerialNext, Next

LEMMA SerialInit == Init => SerialInv
<1>1. Init => OneAtATime /\ MoneyAgrees
  BY DEF Init, MemoryInit, ThreadsInit, OneAtATime, MoneyAgrees, MoneyOf
<1> QED
  BY <1>1, OwnerInit DEF SerialInv

\* While a thread has credited the driver and not written the ride back, its
\* copy tells the amount; otherwise the stored record does.
HeldAmount ==
  \A t \in Threads : rec[t] # None /\ pc[t] \in Unwritten =>
      SettledAmount[rec[t].id] = RecordedFare(rec[t])

StoredAmount ==
  \A r \in RideIds :
      (\A t \in Threads : rec[t] # None /\ rec[t].id = r => pc[t] \notin Unwritten)
      => SettledAmount[r] = RecordedFare(rides[r])

LEMMA AmountHeld == SerialInv => HeldAmount
<1> SUFFICES ASSUME SerialInv, NEW t \in Threads, rec[t] # None, pc[t] \in Unwritten
             PROVE  SettledAmount[rec[t].id] = RecordedFare(rec[t])
  BY DEF HeldAmount
<1> DEFINE r == rec[t].id
<1>1. r \in RideIds /\ rec[t] \in Ride
  BY DEF SerialInv, OwnerInv, TypeOK, Ride
<1>2. Settling(r) \subseteq {t}
  BY DEF Settling, InHand, SerialInv, OneAtATime
<1>3. CASE rec[t].fareRecorded
  <2>1. Settling(r) = {t}
    BY <1>2, <1>3 DEF Settling, InHand, Unwritten
  <2>2. (CHOOSE u \in Settling(r) : TRUE) = t
    BY <2>1
  <2> QED
    BY <1>1, <1>3, <2>1, <2>2 DEF SettledAmount, RecordedFare
<1>4. CASE ~rec[t].fareRecorded
  <2>1. Settling(r) = {}
    BY <1>2, <1>4 DEF Settling
  <2>2. RecordedFare(rides[r]) = Unpaid
    BY <1>4 DEF SerialInv, MoneyAgrees, MoneyOf, RecordedFare
  <2>3. SettledAmount[r] = RecordedFare(rides[r])
    BY <1>1, <2>1 DEF SettledAmount, RecordedFare
  <2> QED
    BY <1>4, <2>2, <2>3 DEF RecordedFare
<1> QED
  BY <1>3, <1>4

LEMMA AmountStored == StoredAmount
<1> SUFFICES ASSUME NEW r \in RideIds,
                    \A t \in Threads : rec[t] # None /\ rec[t].id = r =>
                                           pc[t] \notin Unwritten
             PROVE  SettledAmount[r] = RecordedFare(rides[r])
  BY DEF StoredAmount
<1>1. Settling(r) = {}
  BY DEF Settling, InHand, Unwritten
<1> QED
  BY <1>1 DEF SettledAmount, RecordedFare

LEMMA AmountHeldNext == SerialInv' => HeldAmount'
  BY AmountHeld, PTL

LEMMA AmountStoredNext == StoredAmount'
  BY AmountStored, PTL

-----------------------------------------------------------------------------
(* The invariant *)

\* A step of one thread: what it does to its own ride decides.
LEMMA SerialByThread ==
  ASSUME SerialInv, OwnerInv', NEW t \in Threads,
         \A u \in Threads : u # t => rec'[u] = rec[u] /\ pc'[u] = pc[u],
         \A r \in RideIds : rides'[r] = rides[r] \/ (rec[t] # None /\ rec[t].id = r),
         \A u \in Threads : u # t /\ rec'[t] # None /\ rec[u] # None =>
                               rec'[t].id # rec[u].id,
         MoneyOf(t)'
  PROVE  SerialInv'
<1>1. OneAtATime'
  BY DEF SerialInv, OneAtATime
<1>2. ASSUME NEW u \in Threads, u # t PROVE MoneyOf(u)'
  <2>1. CASE rec[u] = None
    BY <1>2, <2>1 DEF MoneyOf
  <2>2. CASE rec[u] # None
    <3>1. rec[u].id \in RideIds
      BY <2>2 DEF SerialInv, OwnerInv, TypeOK, Ride
    <3>2. rides'[rec[u].id] = rides[rec[u].id]
      BY <1>2, <2>2, <3>1 DEF SerialInv, OneAtATime
    <3>3. MoneyOf(u)
      BY DEF SerialInv, MoneyAgrees
    <3> QED
      BY <1>2, <2>2, <3>2, <3>3 DEF MoneyOf, RecordedFare
  <2> QED
    BY <2>1, <2>2
<1>3. MoneyAgrees'
  BY <1>2 DEF MoneyAgrees
<1> QED
  BY <1>1, <1>3 DEF SerialInv

\* A step in which a thread keeps its ride, and stores nothing.
LEMMA SerialKept ==
  ASSUME SerialInv, OwnerInv', NEW t \in Threads,
         \A u \in Threads : u # t => rec'[u] = rec[u] /\ pc'[u] = pc[u],
         rides' = rides,
         rec'[t] # None => rec[t] # None /\ rec'[t].id = rec[t].id,
         MoneyOf(t)'
  PROVE  SerialInv'
<1>1. \A u \in Threads : u # t /\ rec'[t] # None /\ rec[u] # None =>
                             rec'[t].id # rec[u].id
  BY DEF SerialInv, OneAtATime
<1> QED
  BY <1>1, SerialByThread

LEMMA SerialRequest ==
  ASSUME SerialInv, OwnerInv', NEW t \in Threads,
         RequestStep(t) \/ ReceiveRequest(t)
  PROVE  SerialInv'
<1> USE DEF Goto, memory, threads, database, brokers
<1>1. MoneyOf(t) /\ TypeOK
  BY DEF SerialInv, MoneyAgrees, OwnerInv
<1>2. ASSUME rec' = rec, rides' = rides, pc[t] \in {"idle", "match"},
             \A u \in Threads : u # t => pc'[u] = pc[u]
      PROVE  SerialInv'
  <2>1. rec[t] = None
    BY <1>1, <1>2 DEF TypeOK
  <2>2. MoneyOf(t)'
    BY <1>2, <2>1 DEF MoneyOf
  <2> QED
    BY <1>2, <2>2, SerialKept
<1>3. CASE ReceiveRequest(t)
  BY <1>1, <1>2, <1>3 DEF ReceiveRequest, StartRequest, TypeOK
<1>4. CASE TakeCandidate(t)
  BY <1>1, <1>2, <1>4 DEF TakeCandidate, SelectDriver, TypeOK
<1>5. CASE SkipCandidate(t)
  BY <1>1, <1>2, <1>5 DEF SkipCandidate, TypeOK
<1>6. CASE FallbackScan(t)
  BY <1>1, <1>2, <1>6 DEF FallbackScan, SelectDriver, TypeOK
<1>7. CASE RejectRequest(t)
  BY <1>1, <1>2, <1>7 DEF RejectRequest, TypeOK
<1>8. CASE NumberRide(t)
  <2> DEFINE new == NewRide(rideSequence, req[t].rider, req[t].driver)
  <2>1. /\ rec'[t] = new /\ new.id = rideSequence /\ ~new.fareRecorded
        /\ pc'[t] = "insert" /\ rides' = rides /\ rideSequence \in RideIds
        /\ \A u \in Threads : u # t => rec'[u] = rec[u] /\ pc'[u] = pc[u]
    BY <1>1, <1>8 DEF NumberRide, TypeOK, NewRide
  <2>2. \A u \in Threads : rec[u] # None => rec[u].id # rideSequence
    BY <2>1 DEF SerialInv, OwnerInv, IdsDrawn, TypeOK, Ride, RideIds
  <2>3. MoneyOf(t)'
    BY <2>1 DEF MoneyOf, RecordedFare, Unwritten
  <2> QED
    BY <2>1, <2>2, <2>3, SerialByThread
<1>9. CASE InsertRide(t)
  <2>1. /\ rec[t] \in Ride /\ rec[t] # None /\ rec' = rec /\ pc'[t] = "reserve"
        /\ rides' = [rides EXCEPT ![rec[t].id] = rec[t]]
        /\ \A u \in Threads : u # t => pc'[u] = pc[u]
    BY <1>1, <1>9 DEF InsertRide, TypeOK
  <2>2. rides'[rec[t].id] = rec[t] /\ \A r \in RideIds : r # rec[t].id => rides'[r] = rides[r]
    BY <1>1, <2>1 DEF TypeOK, Ride
  <2>3. MoneyOf(t)'
    BY <2>1, <2>2 DEF MoneyOf, Unwritten
  <2>4. \A u \in Threads : u # t /\ rec[u] # None => rec[t].id # rec[u].id
    BY <2>1 DEF SerialInv, OneAtATime
  <2> QED
    BY <2>1, <2>2, <2>3, <2>4, SerialByThread
<1>10. CASE ReserveDriver(t)
  <2>1. MoneyOf(t)'
    BY <1>1, <1>10 DEF ReserveDriver, MoneyOf, Unwritten, RecordedFare, TypeOK
  <2> QED
    BY <1>1, <1>10, <2>1, SerialKept DEF ReserveDriver, TypeOK
<1> QED
  BY <1>3, <1>4, <1>5, <1>6, <1>7, <1>8, <1>9, <1>10 DEF RequestStep

\* Starting an update of a ride nobody has in hand.
LEMMA SerialStart ==
  ASSUME SerialInv, OwnerInv', NEW t \in Threads, NEW r \in RideIds,
         InHand(r) = {}, ReceiveUpdate(t, r)
  PROVE  SerialInv'
<1>1. PICK status \in Reported, fare \in Fares : StartUpdate(t, r, status, fare)
  BY DEF ReceiveUpdate
<1> DEFINE copy == Updated(rides[r], status, fare)
<1>2. /\ rides[r] \in Ride /\ rides[r] # None /\ rides[r].id = r
      /\ status \in Status /\ fare \in Int
  BY <1>1, HandlerAssumption DEF StartUpdate, SerialInv, OwnerInv, TypeOK, IdsDrawn
<1>3. /\ rides' = rides /\ rec'[t] = copy
      /\ pc'[t] = Branch(rides[r], status, fare)
      /\ \A u \in Threads : u # t => rec'[u] = rec[u] /\ pc'[u] = pc[u]
  BY <1>1 DEF StartUpdate, SerialInv, OwnerInv, TypeOK, Goto, memory
<1>4. copy.id = r
  BY <1>2, UpdatedType
<1>5. \A u \in Threads : rec[u] # None => rec[u].id # r
  BY DEF InHand
<1>6. MoneyOf(t)'
  <2>1. CASE Settles(rides[r], status, fare)
    <3>1. /\ pc'[t] = "credit" /\ fare \in Nat /\ ~rides[r].fareRecorded
          /\ copy.fareRecorded /\ copy.fare = fare
      BY <1>2, <1>3, <2>1 DEF Settles, Branch, Updated, Ride
    <3>2. fare \in Fares \cap Nat
      BY <1>1, <3>1
    <3>3. RecordedFare(rides[r])' = Unpaid
      BY <1>3, <3>1 DEF RecordedFare
    <3> HIDE DEF copy
    <3> QED
      BY <1>3, <1>4, <3>1, <3>2, <3>3 DEF MoneyOf, Unwritten
  <2>2. CASE ~Settles(rides[r], status, fare)
    <3>1. /\ pc'[t] \in {"accept", "release", "write"}
          /\ copy.fareRecorded = rides[r].fareRecorded
          /\ copy.fare = rides[r].fare /\ copy # None
      <4>1. copy \in Ride
        BY <1>2, UpdatedType
      <4> QED
        BY <1>2, <1>3, <2>2, <4>1, HandlerAssumption DEF Branch, Updated, Ride
    <3>2. RecordedFare(copy) = RecordedFare(rides[r])
      BY <1>2, <3>1 DEF RecordedFare
    <3> QED
      BY <1>3, <1>4, <3>1, <3>2 DEF MoneyOf, Unwritten
  <2> QED
    BY <2>1, <2>2
<1>7. \A s \in RideIds : rides'[s] = rides[s]
  BY <1>3
<1>8. \A u \in Threads : u # t /\ rec'[t] # None /\ rec[u] # None =>
                          rec'[t].id # rec[u].id
  BY <1>3, <1>4, <1>5
<1> QED
  BY <1>3, <1>6, <1>7, <1>8, SerialByThread

\* The other steps of a handler that has a ride in hand.
LEMMA SerialUpdate ==
  ASSUME SerialInv, OwnerInv', NEW t \in Threads,
         UpdateStep(t) \/ PersistRide(t) \/ PublishRide(t) \/ NotifyDriver(t)
  PROVE  SerialInv'
<1> USE DEF Goto, memory, threads, database, brokers
<1>1. MoneyOf(t) /\ TypeOK
  BY DEF SerialInv, MoneyAgrees, OwnerInv
<1>2. ASSUME rides' = rides, \A u \in Threads : u # t => rec'[u] = rec[u] /\ pc'[u] = pc[u],
             rec'[t] = rec[t] \/ rec'[t] = None,
             \/ pc[t] = "accept" /\ pc'[t] \in {"write", "idle"}
             \/ pc[t] = "credit" /\ pc'[t] = "lookup"
             \/ pc[t] \in Unwritten /\ pc'[t] \in Unwritten
             \/ pc[t] = "persist" /\ pc'[t] = "publish"
             \/ pc[t] = "publish" /\ pc'[t] = "notify"
             \/ pc[t] = "notify" /\ pc'[t] = "idle"
      PROVE  SerialInv'
  <2>1. MoneyOf(t)'
    BY <1>1, <1>2 DEF MoneyOf, Unwritten, RecordedFare
  <2>2. rec'[t] # None => rec[t] # None /\ rec'[t].id = rec[t].id
    BY <1>2
  <2> QED
    BY <1>2, <2>1, <2>2, SerialKept
<1>3. CASE AcceptRide(t)
  BY <1>1, <1>2, <1>3 DEF AcceptRide, TypeOK
<1>4. CASE CreditDriver(t)
  BY <1>1, <1>2, <1>4 DEF CreditDriver, TypeOK
<1>5. CASE LookupRide(t)
  BY <1>1, <1>2, <1>5 DEF LookupRide, TypeOK, Unwritten
<1>6. CASE RecordPayment(t)
  <2>1. /\ rec[t] \in Ride /\ rec[t] # None /\ rides' = rides
        /\ pc[t] = "pay" /\ pc'[t] = "release"
        /\ \A u \in Threads : u # t => rec'[u] = rec[u] /\ pc'[u] = pc[u]
        /\ rec'[t] \in {rec[t], [rec[t] EXCEPT !.paymentRecorded = TRUE]}
    BY <1>1, <1>6 DEF RecordPayment, TypeOK
  <2>2. /\ rec'[t].id = rec[t].id /\ rec'[t].fareRecorded = rec[t].fareRecorded
        /\ rec'[t].fare = rec[t].fare /\ rec'[t] # None
    <3>1. [rec[t] EXCEPT !.paymentRecorded = TRUE] \in Ride
      BY <2>1 DEF Ride
    <3>2. /\ [rec[t] EXCEPT !.paymentRecorded = TRUE].id = rec[t].id
          /\ [rec[t] EXCEPT !.paymentRecorded = TRUE].fareRecorded = rec[t].fareRecorded
          /\ [rec[t] EXCEPT !.paymentRecorded = TRUE].fare = rec[t].fare
      BY <2>1 DEF Ride
    <3> QED
      BY <2>1, <3>1, <3>2, HandlerAssumption
  <2>3. RecordedFare(rec[t])' = RecordedFare(rec[t])
    BY <2>1, <2>2 DEF RecordedFare
  <2>4. MoneyOf(t)'
    BY <1>1, <2>1, <2>2, <2>3 DEF MoneyOf, Unwritten
  <2> QED
    BY <2>1, <2>2, <2>4, SerialKept
<1>7. CASE ReleaseDriver(t)
  BY <1>1, <1>2, <1>7 DEF ReleaseDriver, TypeOK, Unwritten
<1>8. CASE WriteBack(t)
  <2>1. /\ rec[t] \in Ride /\ rec[t] # None /\ rec' = rec /\ pc'[t] = "persist"
        /\ rides' = [rides EXCEPT ![rec[t].id] = rec[t]]
        /\ \A u \in Threads : u # t => pc'[u] = pc[u]
    BY <1>1, <1>8 DEF WriteBack, TypeOK
  <2>2. rides'[rec[t].id] = rec[t] /\ \A r \in RideIds : r # rec[t].id => rides'[r] = rides[r]
    BY <1>1, <2>1 DEF TypeOK, Ride
  <2>3. MoneyOf(t)'
    BY <2>1, <2>2 DEF MoneyOf, Unwritten
  <2>4. \A u \in Threads : u # t /\ rec[u] # None => rec[t].id # rec[u].id
    BY <2>1 DEF SerialInv, OneAtATime
  <2> QED
    BY <2>1, <2>2, <2>3, <2>4, SerialByThread
<1>9. CASE PersistRide(t)
  BY <1>1, <1>2, <1>9 DEF PersistRide, TypeOK
<1>10. CASE PublishRide(t)
  BY <1>1, <1>2, <1>10 DEF PublishRide, TypeOK
<1>11. CASE NotifyDriver(t)
  BY <1>1, <1>2, <1>11 DEF NotifyDriver, TypeOK
<1> QED
  BY <1>3, <1>4, <1>5, <1>6, <1>7, <1>8, <1>9, <1>10, <1>11 DEF UpdateStep

LEMMA SerialStep == SerialInv /\ [SerialNext]_vars => SerialInv'
<1> SUFFICES ASSUME SerialInv, [SerialNext]_vars PROVE SerialInv'
  OBVIOUS
<1>1. OwnerInv'
  BY OwnerStep, SerialIsNext DEF SerialInv
<1>2. CASE UNCHANGED <<rides, pc, rec>>
  BY <1>1, <1>2 DEF SerialInv, OneAtATime, MoneyAgrees, MoneyOf, RecordedFare
<1>3. CASE DriverReports
  BY <1>2, <1>3 DEF DriverReports, ReportDriver, threads
<1>4. CASE UNCHANGED vars
  BY <1>2, <1>4 DEF vars, memory, threads
<1>5. ASSUME NEW t \in Threads, ReceiveRequest(t) PROVE SerialInv'
  BY <1>1, <1>5, SerialRequest
<1>6. ASSUME NEW t \in Threads, NEW r \in RideIds, InHand(r) = {}, ReceiveUpdate(t, r)
      PROVE  SerialInv'
  BY <1>1, <1>6, SerialStart
<1>7. ASSUME NEW t \in Threads, HandlerStep(t) PROVE SerialInv'
  BY <1>1, <1>7, SerialRequest, SerialUpdate DEF HandlerStep
<1> QED
  BY <1>3, <1>4, <1>5, <1>6, <1>7 DEF SerialNext

-----------------------------------------------------------------------------
(* The refinement *)

\* What the amount of a ride is, seen from the thread that has it in hand, and
\* of a ride nobody has in hand.
OwnAmount ==
  /\ \A t \in Threads : rec[t] # None =>
        SettledAmount[rec[t].id] =
            IF pc[t] \in Unwritten THEN RecordedFare(rec[t])
                                   ELSE RecordedFare(rides[rec[t].id])
  /\ \A r \in RideIds : (\A t \in Threads : rec[t] # None => rec[t].id # r) =>
        SettledAmount[r] = RecordedFare(rides[r])

LEMMA AmountOwn == SerialInv => OwnAmount
<1> SUFFICES ASSUME SerialInv PROVE OwnAmount
  OBVIOUS
<1>1. \A t \in Threads : rec[t] # None => rec[t].id \in RideIds
  BY DEF SerialInv, OwnerInv, TypeOK, Ride
<1>2. ASSUME NEW t \in Threads, rec[t] # None, pc[t] \notin Unwritten
      PROVE  SettledAmount[rec[t].id] = RecordedFare(rides[rec[t].id])
  BY <1>1, <1>2, AmountStored DEF StoredAmount, SerialInv, OneAtATime
<1> QED
  BY <1>1, <1>2, AmountHeld, AmountStored DEF OwnAmount, HeldAmount, StoredAmount

LEMMA AmountOwnNext == SerialInv' => OwnAmount'
  BY AmountOwn, PTL

\* A thread's step tells nothing new about other rides.
LEMMA AmountElsewhere ==
  ASSUME SerialInv, SerialInv', NEW t \in Threads, NEW r \in RideIds,
         \A u \in Threads : u # t => rec'[u] = rec[u] /\ pc'[u] = pc[u],
         rides'[r] = rides[r],
         rec[t] # None => rec[t].id # r,
         rec'[t] # None => rec'[t].id # r
  PROVE  SettledAmount'[r] = SettledAmount[r]
<1>1. CASE \E u \in Threads : rec[u] # None /\ rec[u].id = r
  <2> PICK u \in Threads : rec[u] # None /\ rec[u].id = r
    BY <1>1
  <2>1. u # t /\ rec'[u] = rec[u] /\ pc'[u] = pc[u]
    OBVIOUS
  <2>2. SettledAmount[r] = IF pc[u] \in Unwritten THEN RecordedFare(rec[u])
                                                 ELSE RecordedFare(rides[r])
    BY AmountOwn DEF OwnAmount
  <2>3. SettledAmount'[r] = IF pc[u] \in Unwritten THEN RecordedFare(rec[u])
                                                  ELSE RecordedFare(rides[r])
    BY <2>1, AmountOwnNext DEF OwnAmount, RecordedFare
  <2> QED
    BY <2>2, <2>3
<1>2. CASE \A u \in Threads : rec[u] # None => rec[u].id # r
  <2>1. SettledAmount[r] = RecordedFare(rides[r])
    BY <1>2, AmountOwn DEF OwnAmount
  <2>2. \A u \in Threads : rec'[u] # None => rec'[u].id # r
    BY <1>2
  <2>3. SettledAmount'[r] = RecordedFare(rides[r])
    BY <2>2, AmountOwnNext DEF OwnAmount, RecordedFare
  <2> QED
    BY <2>1, <2>3
<1> QED
  BY <1>1, <1>2

\* Functions on a set are equal when they agree on each of its elements.
LEMMA SameFunction ==
  ASSUME NEW S, NEW f, NEW g,
         f = [x \in S |-> f[x]], g = [x \in S |-> g[x]],
         \A x \in S : f[x] = g[x]
  PROVE  f = g
  OBVIOUS

LEMMA AmountFunction ==
  /\ SettledAmount = [r \in RideIds |-> SettledAmount[r]]
  /\ SettledAmount' = [r \in RideIds |-> SettledAmount'[r]]
  BY DEF SettledAmount

\* Nor does a step that keeps the rides and all copies, and neither enters nor
\* leaves the steps between credit and write-back.
LEMMA AmountUnmoved ==
  ASSUME SerialInv, SerialInv', rides' = rides, rec' = rec,
         \A u \in Threads : pc'[u] \in Unwritten <=> pc[u] \in Unwritten
  PROVE  SettledAmount' = SettledAmount /\ Payee' = Payee
<1>1. ASSUME NEW r \in RideIds PROVE SettledAmount'[r] = SettledAmount[r]
  <2>1. CASE \E u \in Threads : rec[u] # None /\ rec[u].id = r
    BY <2>1, AmountOwn, AmountOwnNext DEF OwnAmount, RecordedFare
  <2>2. CASE \A u \in Threads : rec[u] # None => rec[u].id # r
    BY <2>2, AmountOwn, AmountOwnNext DEF OwnAmount, RecordedFare
  <2> QED
    BY <2>1, <2>2
<1>2. SettledAmount' = SettledAmount
  BY <1>1, AmountFunction, SameFunction
<1>3. Payee' = Payee
  BY DEF Payee
<1> QED
  BY <1>2, <1>3

LEMMA WalletsKept ==
  ASSUME SerialInv, NEW d \in Drivers, NEW available \in BOOLEAN,
         NEW rideId \in RideIds \cup {NoRideId},
         SetDriverAvailability(d, available, rideId)
  PROVE  Wallets' = Wallets
  BY AvailabilityType DEF SerialInv, OwnerInv, TypeOK, Wallets

LEMMA LedgerInit == Init => Ledger!Init
<1> SUFFICES ASSUME Init PROVE Ledger!Init
  OBVIOUS
<1>1. Payee = [r \in RideIds |-> None]
  BY DEF Init, MemoryInit, Payee
<1>2. Wallets = [d \in Drivers |-> 0]
  BY DEF Init, MemoryInit, Wallets, NoDriverState
<1>3. \A r \in RideIds : Settling(r) = {}
  BY DEF Init, ThreadsInit, Settling, InHand
<1>4. SettledAmount = [r \in RideIds |-> Unpaid]
  BY <1>3 DEF SettledAmount, Init, MemoryInit
<1> QED
  BY <1>1, <1>2, <1>4 DEF Ledger!Init

\* The steps of a request: storing the new ride opens its account.
LEMMA LedgerRequest ==
  ASSUME SerialInv, SerialInv', NEW t \in Threads, RequestStep(t) \/ ReceiveRequest(t)
  PROVE  [Ledger!Next]_(Ledger!ledger)
<1> USE DEF Goto, memory, threads, database, brokers
<1>1. TypeOK
  BY DEF SerialInv, OwnerInv
<1>2. ASSUME rides' = rides, rec' = rec, drivers' = drivers,
             \A u \in Threads : u # t => pc'[u] = pc[u],
             pc[t] \notin Unwritten, pc'[t] \notin Unwritten
      PROVE  UNCHANGED Ledger!ledger
  <2>1. SettledAmount' = SettledAmount /\ Payee' = Payee
    BY <1>2, AmountUnmoved
  <2> QED
    BY <1>2, <2>1 DEF Wallets, Ledger!ledger
<1>3. CASE ReceiveRequest(t)
  BY <1>1, <1>2, <1>3 DEF ReceiveRequest, StartRequest, TypeOK, Unwritten
<1>4. CASE TakeCandidate(t)
  BY <1>1, <1>2, <1>4 DEF TakeCandidate, SelectDriver, TypeOK, Unwritten
<1>5. CASE SkipCandidate(t)
  BY <1>1, <1>2, <1>5 DEF SkipCandidate, TypeOK, Unwritten
<1>6. CASE FallbackScan(t)
  BY <1>1, <1>2, <1>6 DEF FallbackScan, SelectDriver, TypeOK, Unwritten
<1>7. CASE RejectRequest(t)
  BY <1>1, <1>2, <1>7 DEF RejectRequest, TypeOK, Unwritten
<1>8. CASE NumberRide(t)
  <2> DEFINE new == NewRide(rideSequence, req[t].rider, req[t].driver)
  <2>1. /\ rec[t] = None /\ rec'[t] = new /\ new.id = rideSequence
        /\ pc'[t] = "insert" /\ rides' = rides /\ drivers' = drivers
        /\ rideSequence \in RideIds
        /\ \A u \in Threads : u # t => rec'[u] = rec[u] /\ pc'[u] = pc[u]
    BY <1>1, <1>8 DEF NumberRide, TypeOK, NewRide
  <2>2. rec'[t] # None
    BY <2>1 DEF SerialInv, OwnerInv, TypeOK
  <2>3. \A u \in Threads : rec[u] # None => rec[u].id # rideSequence
    BY <2>1 DEF SerialInv, OwnerInv, IdsDrawn, TypeOK, Ride, RideIds
  <2>4. SettledAmount[rideSequence] = RecordedFare(rides[rideSequence])
    BY <2>1, <2>3, AmountOwn DEF OwnAmount
  <2>5. SettledAmount'[rideSequence] = RecordedFare(rides[rideSequence])
    BY <2>1, <2>2, AmountOwnNext DEF OwnAmount, Unwritten, RecordedFare
  <2>6. \A r \in RideIds : r # rideSequence => SettledAmount'[r] = SettledAmount[r]
    BY <2>1, AmountElsewhere
  <2>7. SettledAmount' = SettledAmount
    BY <2>4, <2>5, <2>6, AmountFunction, SameFunction
  <2>8. Payee' = Payee /\ Wallets' = Wallets
    BY <2>1 DEF Payee, Wallets
  <2> QED
    BY <2>7, <2>8 DEF Ledger!ledger
<1>9. CASE InsertRide(t)
  <2> DEFINE r == rec[t].id
  <2>1. /\ rec[t] \in Ride /\ rec[t] # None /\ rec' = rec
        /\ pc[t] = "insert" /\ pc'[t] = "reserve" /\ r \in RideIds
        /\ rides' = [rides EXCEPT ![r] = rec[t]] /\ drivers' = drivers
        /\ \A u \in Threads : u # t => pc'[u] = pc[u]
    BY <1>1, <1>9 DEF InsertRide, TypeOK, Ride
  <2>2. rides'[r] = rec[t] /\ rides[r] = None
    BY <1>1, <2>1 DEF TypeOK, SerialInv, OwnerInv, NewRidesAlone
  <2>3. \A s \in RideIds : s # r => SettledAmount'[s] = SettledAmount[s]
    BY <1>1, <2>1, AmountElsewhere DEF TypeOK
  <2>4. SettledAmount[r] = Unpaid
    BY <2>1, <2>2, AmountOwn DEF OwnAmount, Unwritten, RecordedFare
  <2>5. SettledAmount'[r] = RecordedFare(rec[t])'
    BY <2>1, <2>2, AmountOwnNext DEF OwnAmount, Unwritten, RecordedFare
  <2>6. RecordedFare(rec[t])' = Unpaid
    BY <2>1 DEF SerialInv, MoneyAgrees, MoneyOf, RecordedFare
  <2>7. SettledAmount' = SettledAmount
    BY <2>3, <2>4, <2>5, <2>6, AmountFunction, SameFunction
  <2>8. Payee[r] = None /\ Payee' = [Payee EXCEPT ![r] = rec[t].driver]
    BY <1>1, <2>1, <2>2 DEF Payee, TypeOK
  <2>9. rec[t].driver \in Drivers /\ Wallets' = Wallets
    BY <2>1 DEF Ride, Wallets
  <2>10. Ledger!Open(r, rec[t].driver)
    BY <2>7, <2>8, <2>9 DEF Ledger!Open
  <2> QED
    BY <2>1, <2>9, <2>10 DEF Ledger!Next
<1>10. CASE ReserveDriver(t)
  <2>1. /\ rides' = rides /\ rec' = rec /\ pc[t] = "reserve" /\ pc'[t] = "persist"
        /\ \A u \in Threads : u # t => pc'[u] = pc[u]
        /\ rec[t].id \in RideIds /\ rec[t].driver \in Drivers
    BY <1>1, <1>10 DEF ReserveDriver, TypeOK, Ride
  <2>2. Wallets' = Wallets
    BY <1>10, <2>1, WalletsKept DEF ReserveDriver
  <2>3. SettledAmount' = SettledAmount /\ Payee' = Payee
    BY <2>1, AmountUnmoved DEF Unwritten
  <2> QED
    BY <2>2, <2>3 DEF Ledger!ledger
<1> QED
  BY <1>3, <1>4, <1>5, <1>6, <1>7, <1>8, <1>9, <1>10 DEF RequestStep

\* Starting an update pays nobody.
LEMMA LedgerStart ==
  ASSUME SerialInv, SerialInv', NEW t \in Threads, NEW r \in RideIds,
         InHand(r) = {}, ReceiveUpdate(t, r)
  PROVE  UNCHANGED Ledger!ledger
<1>1. PICK status \in Reported, fare \in Fares : StartUpdate(t, r, status, fare)
  BY DEF ReceiveUpdate
<1> DEFINE copy == Updated(rides[r], status, fare)
<1>2. /\ rides[r] \in Ride /\ rides[r] # None /\ rides[r].id = r
      /\ status \in Status /\ fare \in Int
  BY <1>1, HandlerAssumption DEF StartUpdate, SerialInv, OwnerInv, TypeOK, IdsDrawn
<1>3. /\ rides' = rides /\ drivers' = drivers /\ rec'[t] = copy
      /\ pc'[t] = Branch(rides[r], status, fare) /\ rec[t] = None
      /\ \A u \in Threads : u # t => rec'[u] = rec[u] /\ pc'[u] = pc[u]
  BY <1>1 DEF StartUpdate, SerialInv, OwnerInv, TypeOK, Goto, memory
<1>4. copy.id = r /\ copy # None
  BY <1>2, UpdatedType, HandlerAssumption
<1>5. SettledAmount[r] = RecordedFare(rides[r])
  BY AmountOwn DEF OwnAmount, InHand
<1>6. SettledAmount'[r] = RecordedFare(rides[r])
  <2>1. CASE Settles(rides[r], status, fare)
    <3>1. pc'[t] = "credit"
      BY <1>2, <1>3, <2>1 DEF Settles, Branch
    <3> QED
      BY <1>3, <1>4, <3>1, AmountOwnNext DEF OwnAmount, Unwritten, RecordedFare
  <2>2. CASE ~Settles(rides[r], status, fare)
    <3>1. copy.fareRecorded = rides[r].fareRecorded /\ copy.fare = rides[r].fare
      BY <1>2, <2>2 DEF Updated, Ride
    <3>2. RecordedFare(copy) = RecordedFare(rides[r])
      BY <1>2, <1>4, <3>1 DEF RecordedFare
    <3>3. RecordedFare(rec[t])' = RecordedFare(rides[r])
      BY <1>3, <3>2 DEF RecordedFare
    <3>4. RecordedFare(rides[r])' = RecordedFare(rides[r])
      BY <1>3 DEF RecordedFare
    <3> QED
      BY <1>3, <1>4, <3>3, <3>4, AmountOwnNext DEF OwnAmount
  <2> QED
    BY <2>1, <2>2
<1>7. \A s \in RideIds : s # r => SettledAmount'[s] = SettledAmount[s]
  BY <1>3, <1>4, AmountElsewhere
<1>8. SettledAmount' = SettledAmount
  BY <1>5, <1>6, <1>7, AmountFunction, SameFunction
<1>9. Payee' = Payee /\ Wallets' = Wallets
  BY <1>3 DEF Payee, Wallets
<1> QED
  BY <1>8, <1>9 DEF Ledger!ledger

\* A step of a thread with a ride in hand that moves no money: it is enough
\* that the amount of its own ride stays.
LEMMA LedgerKept ==
  ASSUME SerialInv, SerialInv', NEW t \in Threads,
         rec[t] # None, rec'[t] # None => rec'[t].id = rec[t].id,
         \A u \in Threads : u # t => rec'[u] = rec[u] /\ pc'[u] = pc[u],
         \A s \in RideIds : s # rec[t].id => rides'[s] = rides[s],
         SettledAmount'[rec[t].id] = SettledAmount[rec[t].id]
  PROVE  SettledAmount' = SettledAmount
<1>1. \A s \in RideIds : s # rec[t].id => SettledAmount'[s] = SettledAmount[s]
  BY AmountElsewhere
<1> QED
  BY <1>1, AmountFunction, SameFunction

\* The steps of an update: the credit settles the ride, once, for the fare.
LEMMA LedgerUpdate ==
  ASSUME SerialInv, SerialInv', NEW t \in Threads,
         UpdateStep(t) \/ PersistRide(t) \/ PublishRide(t) \/ NotifyDriver(t)
  PROVE  [Ledger!Next]_(Ledger!ledger)
<1> USE DEF Goto, memory, threads, database, brokers
<1> DEFINE r == rec[t].id
<1>1. TypeOK /\ MoneyOf(t)
  BY DEF SerialInv, OwnerInv, MoneyAgrees
<1>2. /\ rec[t] \in Ride /\ rec[t] # None /\ r \in RideIds
      /\ rec[t].driver \in Drivers /\ rec[t].fare \in Nat
      /\ \A u \in Threads : u # t => rec'[u] = rec[u] /\ pc'[u] = pc[u]
      /\ pc[t] # "insert"
  BY <1>1 DEF TypeOK, Ride, UpdateStep, AcceptRide, CreditDriver, LookupRide,
              RecordPayment, ReleaseDriver, WriteBack, PersistRide, PublishRide,
              NotifyDriver
<1>3. rides[r] # None /\ rides[r] \in Ride /\ rides[r].driver = rec[t].driver
  BY <1>1, <1>2 DEF SerialInv, OwnerInv, CopiesAgree, SameParties, TypeOK
<1>4. ASSUME rides' = rides, rec' = rec, Wallets' = Wallets,
             pc'[t] \in Unwritten <=> pc[t] \in Unwritten
      PROVE  UNCHANGED Ledger!ledger
  BY <1>2, <1>4, AmountUnmoved DEF Ledger!ledger
<1>5. CASE AcceptRide(t)
  <2>1. /\ rides' = rides /\ pc[t] = "accept" /\ Wallets' = Wallets
        /\ \/ pc'[t] = "write" /\ rec'[t] = rec[t]
           \/ rec'[t] = None
    BY <1>1, <1>2, <1>5, WalletsKept DEF AcceptRide, TypeOK
  <2>2. RecordedFare(rec[t]) = RecordedFare(rides[r])
    BY <1>1, <1>2, <2>1 DEF MoneyOf
  <2>3. SettledAmount[r] = RecordedFare(rides[r])
    BY <1>2, <2>1, AmountOwn DEF OwnAmount, Unwritten
  <2>4. SettledAmount'[r] = RecordedFare(rides[r])
    <3>1. CASE pc'[t] = "write" /\ rec'[t] = rec[t]
      BY <1>2, <2>1, <2>2, <3>1, AmountOwnNext DEF OwnAmount, Unwritten, RecordedFare
    <3>2. CASE rec'[t] = None
      <4>1. \A u \in Threads : rec'[u] # None => rec'[u].id # r
        BY <1>2, <3>2 DEF SerialInv, OneAtATime
      <4> QED
        BY <1>2, <2>1, <4>1, AmountOwnNext DEF OwnAmount, RecordedFare
    <3> QED
      BY <2>1, <3>1, <3>2
  <2>5. SettledAmount' = SettledAmount
    BY <1>2, <2>1, <2>3, <2>4, LedgerKept
  <2>6. Payee' = Payee
    BY <2>1 DEF Payee
  <2> QED
    BY <2>1, <2>5, <2>6 DEF Ledger!ledger
<1>6. CASE CreditDriver(t)
  <2>1. /\ rides' = rides /\ rec' = rec /\ pc[t] = "credit" /\ pc'[t] = "lookup"
        /\ drivers' = [drivers EXCEPT ![rec[t].driver].wallet = @ + rec[t].fare]
    BY <1>1, <1>6 DEF CreditDriver, TypeOK
  <2>2. /\ rec[t].fareRecorded /\ rec[t].fare \in Fares \cap Nat
        /\ RecordedFare(rides[r]) = Unpaid
    BY <1>1, <1>2, <2>1 DEF MoneyOf
  <2>3. SettledAmount[r] = Unpaid
    BY <1>2, <2>1, <2>2, AmountOwn DEF OwnAmount, Unwritten
  <2>4. SettledAmount'[r] = rec[t].fare
    BY <1>2, <2>1, <2>2, AmountOwnNext DEF OwnAmount, Unwritten, RecordedFare
  <2>5. \A s \in RideIds : s # r => SettledAmount'[s] = SettledAmount[s]
    BY <1>2, <2>1, AmountElsewhere
  <2>6. SettledAmount' = [SettledAmount EXCEPT ![r] = rec[t].fare]
    <3> DEFINE g == [SettledAmount EXCEPT ![r] = rec[t].fare]
    <3>1. g = [s \in RideIds |-> g[s]] /\ \A s \in RideIds : SettledAmount'[s] = g[s]
      BY <1>2, <2>4, <2>5, AmountFunction
    <3> QED
      BY <3>1, AmountFunction, SameFunction
  <2>7. Payee' = Payee /\ Payee[r] = rec[t].driver
    BY <1>2, <1>3, <2>1 DEF Payee
  <2>8. Wallets' = [Wallets EXCEPT ![rec[t].driver] = @ + rec[t].fare]
    BY <1>1, <1>2, <2>1 DEF Wallets, TypeOK, DriverState
  <2>9. Ledger!Settle(r, rec[t].fare)
    BY <1>2, <2>3, <2>6, <2>7, <2>8 DEF Ledger!Settle
  <2> QED
    BY <1>2, <2>2, <2>9 DEF Ledger!Next
<1>7. CASE LookupRide(t)
  BY <1>1, <1>4, <1>7 DEF LookupRide, TypeOK, Unwritten, Wallets
<1>8. CASE RecordPayment(t)
  <2>1. /\ rides' = rides /\ drivers' = drivers /\ pc[t] = "pay" /\ pc'[t] = "release"
        /\ rec'[t] \in {rec[t], [rec[t] EXCEPT !.paymentRecorded = TRUE]}
    BY <1>1, <1>8 DEF RecordPayment, TypeOK
  <2>2. /\ rec'[t].id = r /\ rec'[t].fareRecorded = rec[t].fareRecorded
        /\ rec'[t].fare = rec[t].fare /\ rec'[t] # None
    <3>1. [rec[t] EXCEPT !.paymentRecorded = TRUE] \in Ride
      BY <1>2 DEF Ride
    <3>2. /\ [rec[t] EXCEPT !.paymentRecorded = TRUE].id = rec[t].id
          /\ [rec[t] EXCEPT !.paymentRecorded = TRUE].fareRecorded = rec[t].fareRecorded
          /\ [rec[t] EXCEPT !.paymentRecorded = TRUE].fare = rec[t].fare
      BY <1>2 DEF Ride
    <3> QED
      BY <1>2, <2>1, <3>1, <3>2, HandlerAssumption
  <2>3. RecordedFare(rec[t])' = RecordedFare(rec[t])
    BY <1>2, <2>2 DEF RecordedFare
  <2>4. SettledAmount[r] = RecordedFare(rec[t])
    BY <1>2, <2>1, AmountOwn DEF OwnAmount, Unwritten
  <2>5. SettledAmount'[r] = RecordedFare(rec[t])'
    BY <1>2, <2>1, <2>2, AmountOwnNext DEF OwnAmount, Unwritten
  <2>6. SettledAmount' = SettledAmount
    BY <1>2, <2>1, <2>2, <2>3, <2>4, <2>5, LedgerKept
  <2>7. Payee' = Payee /\ Wallets' = Wallets
    BY <2>1 DEF Payee, Wallets
  <2> QED
    BY <2>6, <2>7 DEF Ledger!ledger
<1>9. CASE ReleaseDriver(t)
  <2>1. Wallets' = Wallets
    BY <1>2, <1>9, WalletsKept DEF ReleaseDriver
  <2> QED
    BY <1>1, <1>4, <1>9, <2>1 DEF ReleaseDriver, TypeOK, Unwritten
<1>10. CASE WriteBack(t)
  <2>1. /\ rec' = rec /\ drivers' = drivers /\ pc[t] = "write" /\ pc'[t] = "persist"
        /\ rides' = [rides EXCEPT ![r] = rec[t]]
    BY <1>1, <1>10 DEF WriteBack, TypeOK
  <2>2. rides'[r] = rec[t] /\ \A s \in RideIds : s # r => rides'[s] = rides[s]
    BY <1>1, <1>2, <2>1 DEF TypeOK
  <2>3. SettledAmount[r] = RecordedFare(rec[t])
    BY <1>2, <2>1, AmountOwn DEF OwnAmount, Unwritten
  <2>4. SettledAmount'[r] = RecordedFare(rec[t])
    BY <1>2, <2>1, <2>2, AmountOwnNext DEF OwnAmount, Unwritten, RecordedFare
  <2>5. SettledAmount' = SettledAmount
    BY <1>2, <2>1, <2>2, <2>3, <2>4, LedgerKept
  <2>6. Payee' = Payee
    BY <1>2, <1>3, <2>2 DEF Payee
  <2>7. Wallets' = Wallets
    BY <2>1 DEF Wallets
  <2> QED
    BY <2>5, <2>6, <2>7 DEF Ledger!ledger
<1>11. CASE PersistRide(t)
  BY <1>1, <1>4, <1>11 DEF PersistRide, TypeOK, Unwritten, Wallets
<1>12. CASE PublishRide(t)
  BY <1>1, <1>4, <1>12 DEF PublishRide, TypeOK, Unwritten, Wallets
<1>13. CASE NotifyDriver(t)
  <2>1. /\ rides' = rides /\ drivers' = drivers /\ pc[t] = "notify" /\ rec'[t] = None
    BY <1>1, <1>13 DEF NotifyDriver, TypeOK
  <2>2. SettledAmount[r] = RecordedFare(rides[r])
    BY <1>2, <2>1, AmountOwn DEF OwnAmount, Unwritten
  <2>3. \A u \in Threads : rec'[u] # None => rec'[u].id # r
    BY <1>2, <2>1 DEF SerialInv, OneAtATime
  <2>4. SettledAmount'[r] = RecordedFare(rides[r])
    BY <1>2, <2>1, <2>3, AmountOwnNext DEF OwnAmount, RecordedFare
  <2>5. SettledAmount' = SettledAmount
    BY <1>2, <2>1, <2>2, <2>4, LedgerKept
  <2>6. Payee' = Payee /\ Wallets' = Wallets
    BY <2>1 DEF Payee, Wallets
  <2> QED
    BY <2>5, <2>6 DEF Ledger!ledger
<1> QED
  BY <1>5, <1>6, <1>7, <1>8, <1>9, <1>10, <1>11, <1>12, <1>13 DEF UpdateStep

LEMMA LedgerStep ==
  SerialInv /\ SerialInv' /\ [SerialNext]_vars => [Ledger!Next]_(Ledger!ledger)
<1> SUFFICES ASSUME SerialInv, SerialInv', [SerialNext]_vars
             PROVE  [Ledger!Next]_(Ledger!ledger)
  OBVIOUS
<1>1. CASE DriverReports
  <2>1. rides' = rides /\ rec' = rec /\ pc' = pc
    BY <1>1 DEF DriverReports, ReportDriver, threads
  <2>2. PICK d \in Drivers, a \in BOOLEAN, r \in RideIds \cup {NoRideId} :
               ReportDriver(d, a, r)
    BY <1>1, ReportOf DEF SerialInv, OwnerInv
  <2>3. Wallets' = Wallets
    BY <2>2, WalletsKept DEF ReportDriver
  <2>4. SettledAmount' = SettledAmount /\ Payee' = Payee
    BY <2>1, AmountUnmoved
  <2> QED
    BY <2>3, <2>4 DEF Ledger!ledger
<1>2. CASE UNCHANGED vars
  <2>1. SettledAmount' = SettledAmount /\ Payee' = Payee
    BY <1>2, AmountUnmoved DEF vars, memory, threads
  <2>2. Wallets' = Wallets
    BY <1>2 DEF vars, memory, Wallets
  <2> QED
    BY <2>1, <2>2 DEF Ledger!ledger
<1>3. ASSUME NEW t \in Threads, ReceiveRequest(t)
      PROVE  [Ledger!Next]_(Ledger!ledger)
  BY <1>3, LedgerRequest
<1>4. ASSUME NEW t \in Threads, NEW r \in RideIds, InHand(r) = {}, ReceiveUpdate(t, r)
      PROVE  [Ledger!Next]_(Ledger!ledger)
  BY <1>4, LedgerStart
<1>5. ASSUME NEW t \in Threads, HandlerStep(t) PROVE [Ledger!Next]_(Ledger!ledger)
  BY <1>5, LedgerRequest, LedgerUpdate DEF HandlerStep
<1> QED
  BY <1>1, <1>2, <1>3, <1>4, <1>5 DEF SerialNext

\* With clients that wait for an answer before they send a ride's next update,
\* the handlers implement the ledger: every ride is settled at most once, its
\* own driver gets exactly its fare, and nothing else moves a wallet, whatever
\* requests, updates of other rides and driver reports run in between and
\* whichever statements of the database fail.
THEOREM SerialLedger == SerialSpec => LedgerSpec
  BY SerialInit, SerialStep, LedgerInit, LedgerStep, PTL
  DEF SerialSpec, LedgerSpec, Ledger!Spec

-----------------------------------------------------------------------------
(* Payments *)

\* A payment said to be recorded, by a stored ride or by a copy of one, is in the
\* table with the fare of the same record.
PaymentsKnown ==
    /\ \A r \in RideIds : rides[r] # None /\ rides[r].paymentRecorded =>
          rides[r].fareRecorded /\ payments[r] = rides[r].fare
    /\ \A t \in Threads : rec[t] # None /\ rec[t].paymentRecorded =>
          rec[t].fareRecorded /\ payments[rec[t].id] = rec[t].fare

\* Whoever looks the ride up, to pay it, has a fare to pay.
FaresInHand ==
    \A t \in Threads : rec[t] # None /\ pc[t] \in {"lookup", "pay"} => rec[t].fareRecorded

PaymentsInv == PaymentsKnown /\ FaresInHand

LEMMA PaymentsInit == Init => PaymentsInv
  BY DEF Init, MemoryInit, ThreadsInit, PaymentsInv, PaymentsKnown, FaresInHand

\* Copies that are dropped say nothing.
LEMMA PaymentsKept ==
  ASSUME PaymentsKnown, rides' = rides, payments' = payments,
         \A u \in Threads : rec'[u] = rec[u] \/ rec'[u] = None
  PROVE  PaymentsKnown'
  BY DEF PaymentsKnown

\* A record of a thread is stored as it is, or its copy is changed.
LEMMA PaymentsStored ==
  ASSUME SerialInv, PaymentsKnown, NEW t \in Threads, InsertRide(t) \/ WriteBack(t)
  PROVE  PaymentsKnown'
<1>1. /\ rec[t] \in Ride /\ rec[t] # None /\ rec' = rec /\ payments' = payments
      /\ rides' = [rides EXCEPT ![rec[t].id] = rec[t]]
  BY DEF InsertRide, WriteBack, Goto, database, SerialInv, OwnerInv, TypeOK
<1>2. \A r \in RideIds : rides'[r] = IF r = rec[t].id THEN rec[t] ELSE rides[r]
  BY <1>1 DEF SerialInv, OwnerInv, TypeOK
<1> QED
  BY <1>1, <1>2 DEF PaymentsKnown

LEMMA PaymentsTaken ==
  ASSUME SerialInv, PaymentsKnown, NEW t \in Threads, rides' = rides, payments' = payments,
         \A u \in Threads : u # t => rec'[u] = rec[u],
         rec'[t] # None /\ rec'[t].paymentRecorded =>
            rec'[t].fareRecorded /\ payments[rec'[t].id] = rec'[t].fare
  PROVE  PaymentsKnown'
  BY DEF PaymentsKnown

\* The payment of a ride is recorded by the one thread that has it in hand, with
\* the fare of its copy; a fare recorded before is the same.
LEMMA PaymentsMade ==
  ASSUME SerialInv, PaymentsInv, NEW t \in Threads, RecordPayment(t)
  PROVE  PaymentsKnown'
<1> DEFINE r == rec[t].id
<1>1. /\ rec[t] \in Ride /\ rec[t] # None /\ r \in RideIds /\ pc[t] = "pay" /\ rides' = rides
  BY DEF RecordPayment, Goto, memory, SerialInv, OwnerInv, TypeOK, Ride
<1>2. CASE payments' = payments /\ rec' = rec
  BY <1>1, <1>2, PaymentsKept DEF PaymentsInv
<1>3. CASE /\ payments' = [payments EXCEPT ![r] = rec[t].fare]
           /\ rec' = [rec EXCEPT ![t].paymentRecorded = TRUE]
  <2>1. PICK paid : paid = [rec[t] EXCEPT !.paymentRecorded = TRUE]
    OBVIOUS
  <2>2. rec'[t] = paid /\ \A u \in Threads : u # t => rec'[u] = rec[u]
    BY <1>3, <2>1 DEF SerialInv, OwnerInv, TypeOK
  <2>3. /\ paid.id = r /\ paid.fare = rec[t].fare
        /\ paid.fareRecorded = rec[t].fareRecorded
    BY <1>1, <2>1 DEF Ride
  <2>4. \A s \in RideIds : payments'[s] = IF s = r THEN rec[t].fare ELSE payments[s]
    BY <1>1, <1>3 DEF SerialInv, OwnerInv, TypeOK
  <2>5. rec[t].fareRecorded
    BY <1>1 DEF PaymentsInv, FaresInHand
  <2>6. ASSUME NEW u \in Threads, rec'[u] # None, rec'[u].paymentRecorded
        PROVE  rec'[u].fareRecorded /\ payments'[rec'[u].id] = rec'[u].fare
    <3>1. CASE u = t
      BY <1>1, <2>2, <2>3, <2>4, <2>5, <3>1
    <3>2. CASE u # t
      <4>1. rec[u] # None /\ rec[u].id # r /\ rec[u].id \in RideIds
        BY <1>1, <2>2, <2>6, <3>2 DEF SerialInv, OneAtATime, OwnerInv, TypeOK, Ride
      <4> QED
        BY <2>2, <2>4, <2>6, <3>2, <4>1 DEF PaymentsInv, PaymentsKnown
    <3> QED
      BY <3>1, <3>2
  <2>7. ASSUME NEW s \in RideIds, rides[s] # None, rides[s].paymentRecorded
        PROVE  rides[s].fareRecorded /\ payments'[s] = rides[s].fare
    <3>1. CASE s = r
      <4>1. RecordedFare(rides[r]) \in {Unpaid, RecordedFare(rec[t])}
        BY <1>1 DEF SerialInv, MoneyAgrees, MoneyOf, Unwritten
      <4>2. rides[r].fareRecorded /\ rides[r].fare \in Nat
        BY <1>1, <2>7, <3>1 DEF PaymentsInv, PaymentsKnown, SerialInv, OwnerInv, TypeOK, Ride
      <4>3. rides[r].fare = rec[t].fare
        BY <1>1, <2>7, <3>1, <4>1, <4>2 DEF RecordedFare, Unpaid
      <4> QED
        BY <2>4, <3>1, <4>2, <4>3
    <3>2. CASE s # r
      BY <2>4, <2>7, <3>2 DEF PaymentsInv, PaymentsKnown
    <3> QED
      BY <3>1, <3>2
  <2> QED
    BY <1>1, <2>6, <2>7 DEF PaymentsKnown
<1> QED
  BY <1>2, <1>3 DEF RecordPayment

\* A step that leaves the stored rides and the payments alone, and changes no copy
\* but by dropping it.
MovesOn(t) ==
    /\ rides' = rides /\ payments' = payments
    /\ \A u \in Threads : rec'[u] = rec[u] \/ rec'[u] = None
    /\ \A u \in Threads : u # t => pc'[u] = pc[u]
    /\ pc'[t] \in {"lookup", "pay"} => rec' = rec /\ pc[t] \in {"credit", "lookup"}

ChangesRecord(t) == InsertRide(t) \/ WriteBack(t) \/ RecordPayment(t) \/ NumberRide(t)

\* What steps do to the records.
LEMMA StepsOfRecords ==
  ASSUME TypeOK, [SerialNext]_vars
  PROVE  \/ \E t \in Threads : ChangesRecord(t) \/ MovesOn(t)
         \/ \E t \in Threads, r \in RideIds : InHand(r) = {} /\ ReceiveUpdate(t, r)
         \/ UNCHANGED <<rides, payments, rec, pc>>
<1>1. CASE DriverReports \/ UNCHANGED vars
  BY <1>1 DEF DriverReports, ReportDriver, vars, memory, threads, database
<1>2. ASSUME NEW t \in Threads, RequestStep(t) \/ ReceiveRequest(t)
      PROVE  ChangesRecord(t) \/ MovesOn(t)
  BY <1>2 DEF RequestStep, TakeCandidate, SkipCandidate, FallbackScan, SelectDriver,
           RejectRequest, ReserveDriver, ReceiveRequest, StartRequest, ChangesRecord, MovesOn,
           Goto, memory, database, TypeOK
<1>3. ASSUME NEW t \in Threads, UpdateStep(t) \/ PersistRide(t) \/ PublishRide(t) \/ NotifyDriver(t)
      PROVE  ChangesRecord(t) \/ MovesOn(t)
  BY <1>3 DEF UpdateStep, AcceptRide, CreditDriver, LookupRide, ReleaseDriver,
              PersistRide, PublishRide, NotifyDriver, ChangesRecord, MovesOn,
              Goto, memory, database, TypeOK
<1>4. CASE SerialNext /\ ~DriverReports
  BY <1>2, <1>3, <1>4 DEF SerialNext, HandlerStep
<1> QED
  BY <1>1, <1>4

\* An update copies what the stored ride says of its payment, and a ride with a
\* payment is not settled again.
LEMMA PaymentsCopied ==
  ASSUME SerialInv, PaymentsInv, NEW t \in Threads, NEW r \in RideIds, ReceiveUpdate(t, r)
  PROVE  PaymentsInv'
<1>1. PICK status \in Reported, fare \in Fares : StartUpdate(t, r, status, fare)
  BY DEF ReceiveUpdate
<1>2. PICK copy : copy = Updated(rides[r], status, fare)
  OBVIOUS
<1>3. /\ rides[r] \in Ride /\ rides[r] # None /\ rides[r].id = r
      /\ status \in Status /\ fare \in Int
  BY <1>1, HandlerAssumption DEF StartUpdate, SerialInv, OwnerInv, TypeOK, IdsDrawn
<1>4. /\ rides' = rides /\ payments' = payments /\ rec'[t] = copy
      /\ pc'[t] = Branch(rides[r], status, fare)
      /\ \A u \in Threads : u # t => rec'[u] = rec[u] /\ pc'[u] = pc[u]
  BY <1>1, <1>2 DEF StartUpdate, SerialInv, OwnerInv, TypeOK, Goto, memory, database
<1>5. copy.id = r /\ pc'[t] \notin {"lookup", "pay"}
  BY <1>2, <1>3, <1>4, UpdatedType
<1>6. copy.paymentRecorded =>
         rides[r].paymentRecorded /\ copy.fareRecorded = rides[r].fareRecorded
            /\ copy.fare = rides[r].fare
  <2>1. copy.paymentRecorded = rides[r].paymentRecorded
    BY <1>2, <1>3 DEF Updated, Ride
  <2>2. CASE Settles(rides[r], status, fare)
    BY <1>3, <2>1, <2>2 DEF Settles, PaymentsInv, PaymentsKnown
  <2>3. CASE ~Settles(rides[r], status, fare)
    BY <1>2, <1>3, <2>1, <2>3 DEF Updated, Ride
  <2> QED
    BY <2>2, <2>3
<1>7. copy.paymentRecorded => copy.fareRecorded /\ payments[copy.id] = copy.fare
  BY <1>3, <1>5, <1>6 DEF PaymentsInv, PaymentsKnown
<1>8. PaymentsKnown'
  BY <1>4, <1>7, PaymentsTaken DEF PaymentsInv
<1>9. FaresInHand'
  BY <1>4, <1>5 DEF PaymentsInv, FaresInHand
<1> QED
  BY <1>8, <1>9 DEF PaymentsInv

LEMMA PaymentsStep == SerialInv /\ PaymentsInv /\ [SerialNext]_vars => PaymentsInv'
<1> SUFFICES ASSUME SerialInv, PaymentsInv, [SerialNext]_vars PROVE PaymentsInv'
  OBVIOUS
<1>1. ASSUME NEW t \in Threads, InsertRide(t) \/ WriteBack(t) PROVE PaymentsInv'
  <2>1. PaymentsKnown'
    BY <1>1, PaymentsStored DEF PaymentsInv
  <2>2. FaresInHand'
    BY <1>1 DEF InsertRide, WriteBack, Goto, PaymentsInv, FaresInHand, SerialInv, OwnerInv, TypeOK
  <2> QED
    BY <2>1, <2>2 DEF PaymentsInv
<1>2. ASSUME NEW t \in Threads, RecordPayment(t) PROVE PaymentsInv'
  <2>1. PaymentsKnown'
    BY <1>2, PaymentsMade
  <2>2. /\ pc' = [pc EXCEPT ![t] = "release"]
        /\ \A u \in Threads : u # t => rec'[u] = rec[u]
    BY <1>2 DEF RecordPayment, Goto, SerialInv, OwnerInv, TypeOK
  <2>3. FaresInHand'
    BY <2>2 DEF PaymentsInv, FaresInHand, SerialInv, OwnerInv, TypeOK
  <2> QED
    BY <2>1, <2>3 DEF PaymentsInv
<1>3. ASSUME NEW t \in Threads, NumberRide(t) PROVE PaymentsInv'
  <2>1. /\ rides' = rides /\ payments' = payments /\ pc'[t] = "insert"
        /\ ~rec'[t].paymentRecorded
        /\ \A u \in Threads : u # t => rec'[u] = rec[u] /\ pc'[u] = pc[u]
    BY <1>3 DEF NumberRide, NewRide, Goto, database, SerialInv, OwnerInv, TypeOK
  <2> QED
    BY <2>1, PaymentsTaken DEF PaymentsInv, FaresInHand
<1>4. ASSUME NEW t \in Threads, NEW r \in RideIds, ReceiveUpdate(t, r) PROVE PaymentsInv'
  BY <1>4, PaymentsCopied
<1>5. ASSUME NEW t \in Threads, MovesOn(t)
      PROVE  PaymentsInv'
  <2>1. PaymentsKnown'
    BY <1>5, PaymentsKept DEF PaymentsInv, MovesOn
  <2>2. FaresInHand'
    BY <1>5 DEF PaymentsInv, FaresInHand, SerialInv, MoneyAgrees, MoneyOf, MovesOn
  <2> QED
    BY <2>1, <2>2 DEF PaymentsInv
<1>6. CASE UNCHANGED <<rides, payments, rec, pc>>
  BY <1>6 DEF PaymentsInv, PaymentsKnown, FaresInHand
<1>7. \/ \E t \in Threads : ChangesRecord(t) \/ MovesOn(t)
      \/ \E t \in Threads, r \in RideIds : InHand(r) = {} /\ ReceiveUpdate(t, r)
      \/ UNCHANGED <<rides, payments, rec, pc>>
  BY StepsOfRecords DEF SerialInv, OwnerInv
<1> QED
  BY <1>1, <1>2, <1>3, <1>4, <1>5, <1>6, <1>7 DEF ChangesRecord

\* A crash leaves the database and nobody who says anything of it.
LEMMA RestartForgets ==
  ASSUME SerialInv, Restart
  PROVE  SerialInv' /\ PaymentsInv'
<1>1. TypeOK'
  BY HandlerAssumption
  DEF Restart, database, SerialInv, OwnerInv, TypeOK, DriverState, NoDriverState, RideIds,
      NoRideId, Unpaid, Steps, Status
<1>2. IdsDrawn' /\ NewRidesAlone' /\ CopiesAgree' /\ OneAtATime' /\ MoneyAgrees'
  BY DEF Restart, IdsDrawn, NewRidesAlone, CopiesAgree, OneAtATime, MoneyAgrees, MoneyOf
<1>3. PaymentsInv'
  BY DEF Restart, PaymentsInv, PaymentsKnown, FaresInHand
<1> QED
  BY <1>1, <1>2, <1>3 DEF SerialInv, OwnerInv

\* A payment a ride reports is in the table, with the fare of the ride, also when
\* the process crashes at any moment and its rides' ids are drawn again.
THEOREM ReportsAreTrue == CrashSpec => []ReportedPaymentsExist
<1>1. SerialInv /\ PaymentsInv /\ [SerialNext \/ Restart]_vars => SerialInv' /\ PaymentsInv'
  <2>1. SerialInv /\ PaymentsInv /\ [SerialNext]_vars => SerialInv' /\ PaymentsInv'
    BY SerialStep, PaymentsStep
  <2>2. SerialInv /\ Restart => SerialInv' /\ PaymentsInv'
    BY RestartForgets
  <2> QED
    BY <2>1, <2>2
<1>2. PaymentsInv => ReportedPaymentsExist
  BY DEF PaymentsInv, PaymentsKnown, ReportedPaymentsExist
<1> QED
  BY <1>1, <1>2, SerialInit, PaymentsInit, PTL DEF CrashSpec

\* What a ride was settled for stays, as in the ledger.
LEMMA AmountsStay ==
  ASSUME SerialInv, SerialInv', [SerialNext]_vars, NEW r \in RideIds, SettledAmount[r] # Unpaid
  PROVE  SettledAmount'[r] = SettledAmount[r]
<1>1. [Ledger!Next]_(Ledger!ledger)
  BY LedgerStep
<1>2. SettledAmount = [s \in RideIds |-> SettledAmount[s]]
  BY AmountFunction
<1> QED
  BY <1>1, <1>2 DEF Ledger!Next, Ledger!Open, Ledger!Settle, Ledger!ledger

\* A step leaves the payments alone, or records the one of the ride it has in hand.
LEMMA PaymentsMatchStep ==
  SerialInv /\ SerialInv' /\ PaymentsInv /\ PaymentsMatchLedger /\ [SerialNext]_vars
     => PaymentsMatchLedger'
<1> SUFFICES ASSUME SerialInv, SerialInv', PaymentsInv, PaymentsMatchLedger, [SerialNext]_vars,
                    NEW r \in RideIds, payments'[r] # Unpaid
             PROVE  payments'[r] = SettledAmount'[r]
  BY DEF PaymentsMatchLedger
<1>1. CASE payments'[r] = payments[r]
  <2>1. SettledAmount[r] # Unpaid /\ payments[r] = SettledAmount[r]
    BY <1>1 DEF PaymentsMatchLedger
  <2> QED
    BY <1>1, <2>1, AmountsStay
<1>2. CASE payments'[r] # payments[r]
  <2>1. PICK t \in Threads : RecordPayment(t) /\ payments' # payments
    <3>1. ~ \E t \in Threads : MovesOn(t)
      BY <1>2 DEF MovesOn
    <3>2. ~ \E t \in Threads : InsertRide(t) \/ WriteBack(t) \/ NumberRide(t)
      BY <1>2 DEF InsertRide, WriteBack, NumberRide, database
    <3>3. ~ \E t \in Threads, s \in RideIds : ReceiveUpdate(t, s)
      BY <1>2 DEF ReceiveUpdate, StartUpdate, database
    <3>4. \/ \E t \in Threads : ChangesRecord(t) \/ MovesOn(t)
          \/ \E t \in Threads, s \in RideIds : InHand(s) = {} /\ ReceiveUpdate(t, s)
          \/ UNCHANGED <<rides, payments, rec, pc>>
      BY StepsOfRecords DEF SerialInv, OwnerInv
    <3> QED
      BY <1>2, <3>1, <3>2, <3>3, <3>4 DEF ChangesRecord
  <2>2. /\ rec[t] \in Ride /\ rec[t] # None /\ rec[t].id \in RideIds /\ pc[t] = "pay"
        /\ pc'[t] = "release"
        /\ payments' = [payments EXCEPT ![rec[t].id] = rec[t].fare]
        /\ rec' = [rec EXCEPT ![t].paymentRecorded = TRUE]
    BY <2>1 DEF RecordPayment, Goto, SerialInv, OwnerInv, TypeOK, Ride
  <2>3. r = rec[t].id /\ payments'[r] = rec[t].fare
    BY <1>2, <2>2 DEF SerialInv, OwnerInv, TypeOK
  <2>4. /\ rec'[t].id = r /\ rec'[t].fare = rec[t].fare
        /\ rec'[t].fareRecorded = rec[t].fareRecorded
    BY <2>2, <2>3 DEF SerialInv, OwnerInv, TypeOK, Ride
  <2>5. rec'[t] # None
    BY <2>2 DEF SerialInv, OwnerInv, TypeOK
  <2>6. rec[t].fareRecorded
    BY <2>2 DEF PaymentsInv, FaresInHand
  <2>7. SettledAmount'[rec'[t].id] = RecordedFare(rec[t])'
    BY <2>2, <2>5, AmountOwnNext DEF OwnAmount, Unwritten
  <2> QED
    BY <2>3, <2>4, <2>5, <2>6, <2>7 DEF RecordedFare
<1> QED
  BY <1>1, <1>2

\* The payments table holds what the drivers were credited, ride by ride, whatever
\* statements fail and however often a completion is repeated.
THEOREM PaymentsMatch == SerialSpec => []PaymentsMatchLedger
<1>1. Init => PaymentsMatchLedger
  BY DEF Init, PaymentsMatchLedger
<1> QED
  BY <1>1, SerialInit, SerialStep, PaymentsInit, PaymentsStep, PaymentsMatchStep, PTL
  DEF SerialSpec

-----------------------------------------------------------------------------
(* What memory, the database and the brokers tell *)

RowOf(ride) ==
    [rider |-> ride.rider, driver |-> ride.driver, status |-> ride.status,
     fare |-> IF ride.fareRecorded THEN ride.fare ELSE Unpaid]

\* The row of ride r and the last messages about it are those of the stored ride.
Told(r) ==
    rideRows[r] = RowOf(rides[r]) /\ lifecycle[r] = rides[r].status
       /\ notices[r] = rides[r].status

\* A row has the parties of its ride.
RowsFollow ==
    \A r \in RideIds : rideRows[r] # None => rides[r] # None /\ SameParties(rideRows[r], rides[r])

\* What the thread that has a ride in hand has told of it.
ToldBy(t) ==
    rec[t] # None =>
      /\ pc[t] \notin {"credit", "lookup", "pay"} /\ rec[t].fareRecorded => rec[t].paymentRecorded
      /\ pc[t] \notin {"insert", "reserve", "persist"} => rideRows[rec[t].id] # None
      /\ pc[t] \in {"reserve", "persist", "publish", "notify"} => rides[rec[t].id] = rec[t]
      /\ pc[t] \in {"publish", "notify"} => rideRows[rec[t].id] = RowOf(rec[t])
      /\ pc[t] = "notify" => lifecycle[rec[t].id] = rec[t].status
      /\ pc[t] = "accept" => Told(rec[t].id)

\* Of every ride: its fare is paid, and nobody has it in hand or all is told.
ToldRide(r) ==
    rides[r] # None =>
      /\ rides[r].fareRecorded => rides[r].paymentRecorded
      /\ InHand(r) = {} => Told(r)

TellInv ==
    /\ RowsFollow
    /\ \A r \in RideIds : ToldRide(r)
    /\ \A t \in Threads : ToldBy(t)

LEMMA TellInit == Init => TellInv
  BY DEF Init, MemoryInit, ThreadsInit, TellInv, RowsFollow, ToldRide, ToldBy

\* A thread's step is about the ride it has in hand; the others' are told as before.
LEMMA TellByThread ==
  ASSUME SerialInv, SerialInv', TellInv, NEW t \in Threads, NEW r \in RideIds,
         \A u \in Threads : u # t => rec'[u] = rec[u] /\ pc'[u] = pc[u],
         rec[t] # None => rec[t].id = r,
         rec'[t] # None => rec'[t].id = r,
         rec[t] = None => \A u \in Threads : rec[u] # None => rec[u].id # r,
         \A s \in RideIds : s # r =>
            /\ rides'[s] = rides[s] /\ rideRows'[s] = rideRows[s]
            /\ lifecycle'[s] = lifecycle[s] /\ notices'[s] = notices[s],
         rideRows'[r] # None => rides'[r] # None /\ SameParties(rideRows'[r], rides'[r]),
         ToldRide(r)', ToldBy(t)'
  PROVE  TellInv'
<1>1. RowsFollow'
  BY DEF TellInv, RowsFollow
<1>2. ASSUME NEW u \in Threads, u # t PROVE ToldBy(u)'
  <2>1. CASE rec[u] = None
    BY <1>2, <2>1 DEF ToldBy
  <2>2. CASE rec[u] # None
    <3>1. rec[u].id \in RideIds /\ rec[u].id # r
      BY <1>2, <2>2 DEF SerialInv, OneAtATime, OwnerInv, TypeOK, Ride
    <3>2. ToldBy(u)
      BY DEF TellInv
    <3> QED
      BY <1>2, <2>2, <3>1, <3>2 DEF ToldBy, Told, RowOf
  <2> QED
    BY <2>1, <2>2
<1>3. ASSUME NEW s \in RideIds, s # r PROVE ToldRide(s)'
  <2>1. ToldRide(s)
    BY DEF TellInv
  <2>2. InHand(s)' = InHand(s)
    BY <1>3 DEF InHand
  <2> QED
    BY <1>3, <2>1, <2>2 DEF ToldRide, Told, RowOf
<1> QED
  BY <1>1, <1>2, <1>3 DEF TellInv

\* Steps that touch no ride, no copy and nothing told.
LEMMA TellUntouched ==
  ASSUME TellInv, UNCHANGED <<rides, rec, database, brokers>>,
         \A u \in Threads : rec[u] # None => pc'[u] = pc[u]
  PROVE  TellInv'
<1>1. \A r \in RideIds : InHand(r)' = InHand(r)
  BY DEF InHand
<1>2. RowsFollow' /\ \A r \in RideIds : ToldRide(r)'
  BY <1>1 DEF TellInv, RowsFollow, ToldRide, Told, RowOf, database, brokers
<1>3. \A t \in Threads : ToldBy(t)'
  BY DEF TellInv, ToldBy, Told, RowOf, database, brokers
<1> QED
  BY <1>2, <1>3 DEF TellInv

\* A step of a thread that keeps its ride and neither stores nor tells anything.
LEMMA TellKept ==
  ASSUME SerialInv, SerialInv', TellInv, NEW t \in Threads, rec[t] # None,
         \A u \in Threads : u # t => rec'[u] = rec[u] /\ pc'[u] = pc[u],
         UNCHANGED <<rides, rideRows, brokers>>,
         rec'[t] # None, rec'[t].id = rec[t].id, ToldBy(t)'
  PROVE  TellInv'
<1>1. rec[t].id \in RideIds /\ t \in InHand(rec[t].id)'
  BY DEF SerialInv, OwnerInv, TypeOK, Ride, InHand
<1>2. ToldRide(rec[t].id)'
  BY <1>1 DEF TellInv, ToldRide
<1>3. RowsFollow'
  BY DEF TellInv, RowsFollow
<1> QED
  BY <1>1, <1>2, <1>3, TellByThread DEF RowsFollow, brokers

LEMMA TellRequest ==
  ASSUME SerialInv, SerialInv', TellInv, NEW t \in Threads, RequestStep(t) \/ ReceiveRequest(t)
  PROVE  TellInv'
<1> USE DEF Goto, memory, database, brokers
<1>1. TypeOK /\ IdsDrawn /\ NewRidesAlone /\ MoneyOf(t) /\ ToldBy(t)
  BY DEF SerialInv, OwnerInv, MoneyAgrees, TellInv
<1>2. CASE \/ ReceiveRequest(t) \/ TakeCandidate(t) \/ SkipCandidate(t)
           \/ FallbackScan(t) \/ RejectRequest(t)
  <2>1. /\ rec[t] = None /\ UNCHANGED <<rides, rec, database, brokers>>
        /\ \A u \in Threads : u # t => pc'[u] = pc[u]
    BY <1>1, <1>2 DEF ReceiveRequest, StartRequest, TakeCandidate, SkipCandidate, FallbackScan,
                      SelectDriver, RejectRequest, TypeOK
  <2> QED
    BY <2>1, TellUntouched
<1>3. CASE NumberRide(t)
  <2> PICK r : r = rideSequence
    OBVIOUS
  <2>1. /\ r \in RideIds /\ rec[t] = None /\ rec'[t].id = r /\ ~rec'[t].fareRecorded
        /\ pc'[t] = "insert" /\ UNCHANGED <<rides, database, brokers>>
        /\ \A u \in Threads : u # t => rec'[u] = rec[u] /\ pc'[u] = pc[u]
    BY <1>1, <1>3 DEF NumberRide, NewRide, TypeOK
  <2>2. rides[r] = None /\ \A u \in Threads : rec[u] # None => rec[u].id # r
    BY <1>1, <2>1 DEF IdsDrawn, TypeOK, Ride, RideIds
  <2>3. rideRows[r] = None
    BY <2>1, <2>2 DEF TellInv, RowsFollow
  <2>4. ToldBy(t)'
    BY <2>1 DEF ToldBy
  <2>5. ToldRide(r)'
    BY <2>1, <2>2 DEF ToldRide
  <2> QED
    BY <2>1, <2>2, <2>3, <2>4, <2>5, TellByThread
<1>4. CASE InsertRide(t)
  <2> PICK r : r = rec[t].id
    OBVIOUS
  <2>1. /\ rec[t] \in Ride /\ rec[t] # None /\ r \in RideIds /\ rec' = rec
        /\ pc[t] = "insert" /\ pc'[t] = "reserve"
        /\ rides' = [rides EXCEPT ![r] = rec[t]] /\ UNCHANGED <<database, brokers>>
        /\ \A u \in Threads : u # t => pc'[u] = pc[u]
    BY <1>1, <1>4 DEF InsertRide, TypeOK, Ride
  <2>2. rides'[r] = rec[t] /\ \A s \in RideIds : s # r => rides'[s] = rides[s]
    BY <1>1, <2>1 DEF TypeOK
  <2>3. rides[r] = None
    BY <1>1, <2>1 DEF NewRidesAlone
  <2>4. rideRows[r] = None
    BY <2>1, <2>3 DEF TellInv, RowsFollow
  <2>5. rec[t].fareRecorded => rec[t].paymentRecorded
    BY <1>1, <2>1 DEF ToldBy
  <2>6. ToldBy(t)'
    BY <2>1, <2>2, <2>5 DEF ToldBy
  <2>7. ToldRide(r)'
    BY <2>1, <2>2, <2>5 DEF ToldRide, InHand
  <2> QED
    BY <2>1, <2>2, <2>4, <2>6, <2>7, TellByThread
<1>5. CASE ReserveDriver(t)
  <2>1. /\ rec[t] # None /\ rec' = rec /\ UNCHANGED <<rides, rideRows, brokers>>
        /\ pc[t] = "reserve" /\ pc'[t] = "persist"
        /\ \A u \in Threads : u # t => pc'[u] = pc[u]
    BY <1>1, <1>5 DEF ReserveDriver, TypeOK
  <2>2. ToldBy(t)'
    BY <1>1, <2>1 DEF ToldBy
  <2> QED
    BY <2>1, <2>2, TellKept
<1> QED
  BY <1>2, <1>3, <1>4, <1>5 DEF RequestStep

\* An update starts from a ride of which all is told.
LEMMA TellStart ==
  ASSUME SerialInv, SerialInv', TellInv, NEW t \in Threads, NEW r \in RideIds,
         InHand(r) = {}, ReceiveUpdate(t, r)
  PROVE  TellInv'
<1>1. PICK status \in Reported, fare \in Fares : StartUpdate(t, r, status, fare)
  BY DEF ReceiveUpdate
<1>2. PICK copy : copy = Updated(rides[r], status, fare)
  OBVIOUS
<1>3. /\ rides[r] \in Ride /\ rides[r] # None /\ rides[r].id = r /\ rec[t] = None
      /\ status \in Status /\ fare \in Int
  BY <1>1, HandlerAssumption DEF StartUpdate, SerialInv, OwnerInv, TypeOK, IdsDrawn, Goto
<1>4. /\ UNCHANGED <<rides, database, brokers>> /\ rec'[t] = copy
      /\ pc'[t] = Branch(rides[r], status, fare)
      /\ \A u \in Threads : u # t => rec'[u] = rec[u] /\ pc'[u] = pc[u]
  BY <1>1, <1>2 DEF StartUpdate, SerialInv, OwnerInv, TypeOK, Goto, memory
<1>5. copy.id = r /\ pc'[t] \in {"accept", "credit", "release", "write"}
      /\ (pc'[t] # "credit" => ~Settles(rides[r], status, fare))
  BY <1>2, <1>3, <1>4, UpdatedType DEF Branch, Settles
<1>6. Told(r) /\ (rides[r].fareRecorded => rides[r].paymentRecorded)
  BY <1>3 DEF TellInv, ToldRide
<1>7. pc'[t] # "credit" =>
         copy.fareRecorded = rides[r].fareRecorded /\ copy.paymentRecorded = rides[r].paymentRecorded
  BY <1>2, <1>3, <1>5 DEF Updated, Ride
<1>8. rideRows[r] # None
  <2>1. rideRows[r] = RowOf(rides[r]) /\ RowOf(rides[r]) \in RideRow
    BY <1>3, <1>6 DEF Told, RowOf, RideRow, Ride, Unpaid
  <2> QED
    BY <2>1, HandlerAssumption
<1>9. Told(r)'
  BY <1>4, <1>6 DEF Told, RowOf, database, brokers
<1>10. ToldBy(t)'
  BY <1>4, <1>5, <1>6, <1>7, <1>8, <1>9 DEF ToldBy, database
<1>11. ToldRide(r)'
  BY <1>4, <1>6, <1>9 DEF ToldRide
<1>12. rideRows'[r] # None => rides'[r] # None /\ SameParties(rideRows'[r], rides'[r])
  BY <1>4 DEF TellInv, RowsFollow, database
<1>13. \A u \in Threads : rec[u] # None => rec[u].id # r
  BY DEF InHand
<1> QED
  BY <1>3, <1>4, <1>5, <1>10, <1>11, <1>12, <1>13, TellByThread DEF database, brokers

\* What a real database makes of the row of a stored ride.
LEMMA RowUpserted ==
  ASSUME TypeOK, RowsFollow, NEW r \in RideIds, rides[r] # None, rides[r].id = r
  PROVE  Upserted(rides[r]) = RowOf(rides[r])
<1>1. PICK fare, status : /\ fare = IF rides[r].fareRecorded THEN rides[r].fare ELSE Unpaid
                          /\ status = rides[r].status
  OBVIOUS
<1>2. CASE rideRows[r] = None
  BY <1>1, <1>2 DEF Upserted, RowOf
<1>3. CASE rideRows[r] # None
  <2>1. PICK row : row = rideRows[r]
    OBVIOUS
  <2>2. row \in RideRow
    BY <1>3, <2>1 DEF TypeOK
  <2>3. row.rider = rides[r].rider /\ row.driver = rides[r].driver
    BY <1>3, <2>1 DEF RowsFollow, SameParties
  <2>4. PICK new : new = [row EXCEPT !.status = status, !.fare = fare]
    OBVIOUS
  <2>5. /\ new \in [rider : Riders, driver : Drivers, status : {status}, fare : {fare}]
        /\ new.rider = row.rider /\ new.driver = row.driver
    BY <2>2, <2>4 DEF RideRow
  <2>6. new = [rider |-> row.rider, driver |-> row.driver, status |-> status, fare |-> fare]
    BY <2>5
  <2>7. Upserted(rides[r]) = new
    BY <1>1, <1>3, <2>1, <2>4 DEF Upserted
  <2> QED
    BY <1>1, <2>3, <2>6, <2>7 DEF RowOf
<1> QED
  BY <1>2, <1>3

\* The steps of an update that change the locals and the drivers at most.
LEMMA TellUpdate ==
  ASSUME ~DbFaults, SerialInv, SerialInv', PaymentsInv, TellInv, NEW t \in Threads,
         \/ AcceptRide(t) \/ CreditDriver(t) \/ LookupRide(t) \/ RecordPayment(t)
         \/ ReleaseDriver(t)
  PROVE  TellInv'
<1> USE DEF Goto, memory, database, brokers
<1>1. TypeOK /\ ToldBy(t)
  BY DEF SerialInv, OwnerInv, TellInv
<1>2. CASE AcceptRide(t)
  <2> PICK r : r = rec[t].id
    OBVIOUS
  <2>1. /\ rec[t] # None /\ r \in RideIds /\ pc[t] = "accept" /\ Told(r)
        /\ rideRows[r] # None /\ UNCHANGED <<rides, rideRows, brokers>>
        /\ \A u \in Threads : u # t => rec'[u] = rec[u] /\ pc'[u] = pc[u]
        /\ (rec'[t] = rec[t] /\ pc'[t] = "write") \/ (rec'[t] = None /\ pc'[t] = "idle")
    BY <1>1, <1>2 DEF AcceptRide, TypeOK, Ride, ToldBy
  <2>2. ToldBy(t)'
    BY <1>1, <2>1 DEF ToldBy
  <2>3. ToldRide(r)'
    BY <2>1 DEF ToldRide, TellInv, Told, RowOf
  <2>4. rideRows'[r] # None => rides'[r] # None /\ SameParties(rideRows'[r], rides'[r])
    BY <2>1 DEF TellInv, RowsFollow
  <2> QED
    BY <2>1, <2>2, <2>3, <2>4, TellByThread
<1>3. CASE CreditDriver(t)
  <2>1. pc[t] = "credit" /\ pc'[t] = "lookup" /\ rec' = rec /\ rec[t] # None
        /\ UNCHANGED <<rides, rideRows, brokers>>
        /\ \A u \in Threads : u # t => pc'[u] = pc[u]
    BY <1>1, <1>3 DEF CreditDriver, TypeOK
  <2>2. ToldBy(t)'
    BY <1>1, <2>1 DEF ToldBy
  <2> QED
    BY <2>1, <2>2, TellKept
<1>4. CASE LookupRide(t)
  <2>1. /\ pc[t] = "lookup" /\ rec' = rec /\ rec[t] # None
        /\ UNCHANGED <<rides, rideRows, brokers>>
        /\ \A u \in Threads : u # t => pc'[u] = pc[u]
    BY <1>1, <1>4 DEF LookupRide, TypeOK
  <2>2. rideRows[rec[t].id] # None
    BY <1>1, <2>1 DEF ToldBy
  <2>3. pc'[t] = "pay"
    BY <1>1, <1>4, <2>2 DEF LookupRide, TypeOK
  <2>4. ToldBy(t)'
    BY <1>1, <2>1, <2>2, <2>3 DEF ToldBy
  <2> QED
    BY <2>1, <2>4, TellKept
<1>5. CASE RecordPayment(t)
  <2>1. PICK paid : paid = [rec[t] EXCEPT !.paymentRecorded = TRUE]
    OBVIOUS
  <2>2. /\ pc[t] = "pay" /\ pc'[t] = "release" /\ rec[t] # None /\ rec[t] \in Ride
        /\ rec'[t] = paid /\ UNCHANGED <<rides, rideRows, brokers>>
        /\ \A u \in Threads : u # t => rec'[u] = rec[u] /\ pc'[u] = pc[u]
    BY <1>1, <1>5, <2>1 DEF RecordPayment, TypeOK
  <2>3. paid.id = rec[t].id /\ paid.paymentRecorded /\ paid \in Ride
    BY <2>1, <2>2 DEF Ride
  <2>4. paid # None
    BY <2>3, HandlerAssumption
  <2>5. ToldBy(t)'
    BY <1>1, <2>2, <2>3, <2>4 DEF ToldBy
  <2> QED
    BY <2>2, <2>3, <2>4, <2>5, TellKept
<1>6. CASE ReleaseDriver(t)
  <2>1. /\ pc[t] = "release" /\ pc'[t] = "write" /\ rec' = rec /\ rec[t] # None
        /\ UNCHANGED <<rides, rideRows, brokers>>
        /\ \A u \in Threads : u # t => pc'[u] = pc[u]
    BY <1>1, <1>6 DEF ReleaseDriver, TypeOK
  <2>2. ToldBy(t)'
    BY <1>1, <2>1 DEF ToldBy
  <2> QED
    BY <2>1, <2>2, TellKept
<1> QED
  BY <1>2, <1>3, <1>4, <1>5, <1>6

\* The ride is stored, and what is stored is told: to the database, to the topic,
\* to the driver.
LEMMA TellTail ==
  ASSUME Durable, ~DbFaults, SerialInv, SerialInv', TellInv, NEW t \in Threads,
         WriteBack(t) \/ PersistRide(t) \/ PublishRide(t) \/ NotifyDriver(t)
  PROVE  TellInv'
<1> USE DEF Goto, memory, database, brokers
<1> PICK r : r = rec[t].id
  OBVIOUS
<1>1. TypeOK /\ ToldBy(t) /\ RowsFollow
  BY DEF SerialInv, OwnerInv, TellInv
<1>2. /\ rec[t] # None /\ r \in RideIds /\ rides[r] # None
      /\ SameParties(rides[r], rec[t])
      /\ \A u \in Threads : u # t => rec'[u] = rec[u] /\ pc'[u] = pc[u]
  BY <1>1 DEF WriteBack, PersistRide, PublishRide, NotifyDriver, TypeOK, Ride,
              SerialInv, OwnerInv, CopiesAgree
<1>3. rideRows[r] # None => SameParties(rideRows[r], rides[r])
  BY <1>1, <1>2 DEF RowsFollow
<1>4. CASE WriteBack(t)
  <2>1. /\ pc[t] = "write" /\ pc'[t] = "persist" /\ rec' = rec
        /\ rides' = [rides EXCEPT ![r] = rec[t]] /\ UNCHANGED <<rideRows, brokers>>
    BY <1>1, <1>2, <1>4 DEF WriteBack, TypeOK
  <2>2. rides'[r] = rec[t] /\ \A s \in RideIds : s # r => rides'[s] = rides[s]
    BY <1>1, <1>2, <2>1 DEF TypeOK
  <2>3. rideRows'[r] # None => rides'[r] # None /\ SameParties(rideRows'[r], rides'[r])
    BY <1>2, <1>3, <2>1, <2>2 DEF SameParties
  <2>4. ToldBy(t)'
    BY <1>1, <2>1, <2>2 DEF ToldBy
  <2>5. ToldRide(r)'
    BY <1>1, <1>2, <2>1, <2>2 DEF ToldRide, ToldBy, InHand
  <2> QED
    BY <1>2, <2>1, <2>2, <2>3, <2>4, <2>5, TellByThread
<1>5. CASE PersistRide(t)
  <2>1. /\ pc[t] = "persist" /\ pc'[t] = "publish" /\ rec' = rec /\ rides' = rides
        /\ rideRows' = [rideRows EXCEPT ![r] = Upserted(rec[t])] /\ UNCHANGED brokers
    BY <1>1, <1>2, <1>5 DEF PersistRide, TypeOK
  <2>2. rides[r] = rec[t]
    BY <1>1, <1>2, <2>1 DEF ToldBy
  <2>3. Upserted(rec[t]) = RowOf(rec[t])
    BY <1>1, <1>2, <2>2, RowUpserted
  <2>4. rideRows'[r] = RowOf(rec[t]) /\ \A s \in RideIds : s # r => rideRows'[s] = rideRows[s]
    BY <1>1, <1>2, <2>1, <2>3 DEF TypeOK
  <2>5. rec[t] \in Ride
    BY <1>1, <1>2 DEF TypeOK
  <2>6. RowOf(rec[t]) # None
    <3>1. RowOf(rec[t]) \in RideRow
      BY <2>5 DEF RowOf, RideRow, Ride, Unpaid
    <3> QED
      BY <3>1, HandlerAssumption
  <2>7. SameParties(rideRows'[r], rides'[r])
    BY <2>1, <2>2, <2>4 DEF SameParties, RowOf
  <2>8. ToldBy(t)'
    BY <1>1, <1>2, <2>1, <2>2, <2>4, <2>6 DEF ToldBy, RowOf
  <2>9. ToldRide(r)'
    BY <1>2, <2>1 DEF ToldRide, InHand, TellInv
  <2> QED
    BY <1>2, <2>1, <2>4, <2>7, <2>8, <2>9, TellByThread
<1>6. CASE PublishRide(t)
  <2>1. /\ pc[t] = "publish" /\ pc'[t] = "notify" /\ rec' = rec
        /\ lifecycle' = [lifecycle EXCEPT ![r] = rec[t].status]
        /\ UNCHANGED <<rides, rideRows, notices>>
    BY <1>1, <1>2, <1>6 DEF PublishRide, TypeOK
  <2>2. lifecycle'[r] = rec[t].status /\ \A s \in RideIds : s # r => lifecycle'[s] = lifecycle[s]
    BY <1>1, <1>2, <2>1 DEF TypeOK
  <2>3. ToldBy(t)'
    BY <1>1, <1>2, <2>1, <2>2 DEF ToldBy, RowOf
  <2>4. ToldRide(r)'
    BY <1>2, <2>1 DEF ToldRide, InHand, TellInv
  <2> QED
    BY <1>2, <1>3, <2>1, <2>2, <2>3, <2>4, TellByThread
<1>7. CASE NotifyDriver(t)
  <2>1. /\ pc[t] = "notify" /\ pc'[t] = "idle" /\ rec'[t] = None
        /\ notices' = [notices EXCEPT ![r] = rec[t].status]
        /\ UNCHANGED <<rides, rideRows, lifecycle>>
    BY <1>1, <1>2, <1>7 DEF NotifyDriver, TypeOK
  <2>2. notices'[r] = rec[t].status /\ \A s \in RideIds : s # r => notices'[s] = notices[s]
    BY <1>1, <1>2, <2>1 DEF TypeOK
  <2>3. /\ rides[r] = rec[t] /\ rideRows[r] = RowOf(rec[t]) /\ lifecycle[r] = rec[t].status
    BY <1>1, <1>2, <2>1 DEF ToldBy
  <2>4. Told(r)'
    BY <2>1, <2>2, <2>3 DEF Told, RowOf
  <2>5. ToldRide(r)'
    BY <1>2, <2>1, <2>4 DEF ToldRide, TellInv
  <2>6. ToldBy(t)'
    BY <2>1 DEF ToldBy
  <2> QED
    BY <1>2, <1>3, <2>1, <2>2, <2>5, <2>6, TellByThread
<1> QED
  BY <1>4, <1>5, <1>6, <1>7

LEMMA TellStep ==
  Durable /\ ~DbFaults /\ SerialInv /\ SerialInv' /\ PaymentsInv /\ TellInv /\ [SerialNext]_vars
     => TellInv'
<1> SUFFICES ASSUME Durable, ~DbFaults, SerialInv, SerialInv', PaymentsInv, TellInv,
                    [SerialNext]_vars
             PROVE  TellInv'
  OBVIOUS
<1>1. CASE DriverReports \/ UNCHANGED vars
  BY <1>1, TellUntouched
  DEF DriverReports, ReportDriver, vars, memory, threads, database, brokers
<1>2. ASSUME NEW t \in Threads, RequestStep(t) \/ ReceiveRequest(t) PROVE TellInv'
  BY <1>2, TellRequest
<1>3. ASSUME NEW t \in Threads, NEW r \in RideIds, InHand(r) = {}, ReceiveUpdate(t, r)
      PROVE  TellInv'
  BY <1>3, TellStart
<1>4. ASSUME NEW t \in Threads, UpdateStep(t) \/ PersistRide(t) \/ PublishRide(t) \/ NotifyDriver(t)
      PROVE  TellInv'
  BY <1>4, TellUpdate, TellTail DEF UpdateStep
<1> QED
  BY <1>1, <1>2, <1>3, <1>4 DEF SerialNext, HandlerStep

\* Between calls the memory, the table and both channels tell the same of a ride,
\* however many rides, riders and drivers there are, when every statement reaches
\* a real database.
THEOREM QuietAgree == Durable /\ ~DbFaults /\ SerialSpec => []QuietRidesAgree
<1>1. TellInv => QuietRidesAgree
  BY DEF TellInv, ToldRide, Told, RowOf, QuietRidesAgree
<1>2. CASE Durable /\ ~DbFaults
  BY <1>1, <1>2, SerialInit, SerialStep, PaymentsInit, PaymentsStep, TellInit, TellStep, PTL
  DEF SerialSpec
<1> QED
  BY <1>2

\* Under the same conditions a ride with a recorded fare has its payment in the
\* database between calls.
THEOREM QuietPaid == Durable /\ ~DbFaults /\ SerialSpec => []SettledRidesArePaid
<1>1. PaymentsInv /\ TellInv => SettledRidesArePaid
  BY DEF TellInv, ToldRide, PaymentsInv, PaymentsKnown, SettledRidesArePaid
<1>2. CASE Durable /\ ~DbFaults
  BY <1>1, <1>2, SerialInit, SerialStep, PaymentsInit, PaymentsStep, TellInit, TellStep, PTL
  DEF SerialSpec
<1> QED
  BY <1>2

-----------------------------------------------------------------------------
(* What a driver owns *)

\* What the rides look like in the ledger.
LEMMA LedgerShape ==
  ASSUME SerialInv, NEW r \in RideIds
  PROVE  /\ Payee[r] \in Drivers \cup {None}
         /\ SettledAmount[r] \in Nat \cup {Unpaid}
         /\ Payee[r] = None => SettledAmount[r] = Unpaid
<1>1. rides[r] # None => rides[r] \in Ride /\ rides[r].driver \in Drivers
  BY DEF SerialInv, OwnerInv, TypeOK, Ride
<1>2. \A t \in Threads : rec[t] # None => rec[t] \in Ride
  BY DEF SerialInv, OwnerInv, TypeOK
<1>3. Payee[r] \in Drivers \cup {None} /\ (Payee[r] = None => rides[r] = None)
  BY <1>1, HandlerAssumption DEF Payee
<1>4. RecordedFare(rides[r]) \in Nat \cup {Unpaid}
  BY <1>1 DEF RecordedFare, Ride
<1>5. rides[r] = None => RecordedFare(rides[r]) = Unpaid
  BY DEF RecordedFare
<1>6. CASE \E t \in Threads : rec[t] # None /\ rec[t].id = r /\ pc[t] \in Unwritten
  <2> PICK t \in Threads : rec[t] # None /\ rec[t].id = r /\ pc[t] \in Unwritten
    BY <1>6
  <2>1. SettledAmount[r] = RecordedFare(rec[t])
    BY AmountOwn DEF OwnAmount
  <2>2. RecordedFare(rec[t]) \in Nat \cup {Unpaid}
    BY <1>2 DEF RecordedFare, Ride
  <2>3. rides[r] # None
    BY DEF SerialInv, OwnerInv, CopiesAgree, Unwritten
  <2> QED
    BY <1>3, <2>1, <2>2, <2>3
<1>7. CASE ~ \E t \in Threads : rec[t] # None /\ rec[t].id = r /\ pc[t] \in Unwritten
  <2>1. SettledAmount[r] = RecordedFare(rides[r])
    BY <1>7, AmountStored DEF StoredAmount
  <2> QED
    BY <1>3, <1>4, <1>5, <2>1
<1> QED
  BY <1>6, <1>7

\* The ledger's sums are the sums of SetInduction.
LEMMA LedgerSum ==
  \A f, S : Ledger!SumFunctionOnSet(f, S) = SumFunctionOnSet(f, S)
<1> SUFFICES ASSUME NEW f, NEW S
             PROVE  Ledger!SumFunctionOnSet(f, S) = SumFunctionOnSet(f, S)
  OBVIOUS
<1> QED
  BY DEF Ledger!SumFunctionOnSet, Ledger!FoldFunctionOnSet, Ledger!MapThenFoldSet,
         SumFunctionOnSet, FoldFunctionOnSet, MapThenFoldSet

LEMMA BalancedAsSum ==
  WalletsBalance <=>
    \A d \in Drivers : Wallets[d] = SumFunctionOnSet(SettledAmount, Ledger!SettledFor(d))
  BY LedgerSum DEF WalletsBalance, Ledger!Balanced

LEMMA BalancedAsSumNext ==
  WalletsBalance' <=>
    \A d \in Drivers : Wallets'[d] = SumFunctionOnSet(SettledAmount', Ledger!SettledFor(d)')
  BY LedgerSum DEF WalletsBalance, Ledger!Balanced

\* Opening a ride moves no money and settling one adds its fare to one balance.
LEMMA BalanceStep ==
  ASSUME SerialInv, SerialInv', WalletsBalance, [Ledger!Next]_(Ledger!ledger)
  PROVE  WalletsBalance'
<1> SUFFICES ASSUME NEW d \in Drivers
             PROVE  Wallets'[d] = SumFunctionOnSet(SettledAmount', Ledger!SettledFor(d)')
  BY BalancedAsSumNext
<1> PICK S : S = Ledger!SettledFor(d)
  OBVIOUS
<1> PICK T : T = Ledger!SettledFor(d)'
  OBVIOUS
<1>1. Wallets[d] = SumFunctionOnSet(SettledAmount, S)
  BY BalancedAsSum
<1>2. /\ \A r \in RideIds : r \in S <=> Payee[r] = d /\ SettledAmount[r] # Unpaid
      /\ \A r \in RideIds : r \in T <=> Payee'[r] = d /\ SettledAmount'[r] # Unpaid
      /\ S \subseteq RideIds /\ T \subseteq RideIds
  BY DEF Ledger!SettledFor
<1>3. IsFiniteSet(S) /\ IsFiniteSet(T)
  <2>1. IsFiniteSet(RideIds)
    BY HandlerAssumption, FS_Interval DEF RideIds
  <2>2. S \in SUBSET RideIds /\ T \in SUBSET RideIds
    BY <1>2
  <2> HIDE <1>2
  <2> QED
    BY <2>1, <2>2, FS_Subset
<1>4. d # None /\ \A r \in RideIds : SettledAmount[r] \in Int
  BY LedgerShape, HandlerAssumption DEF Unpaid
<1>5. CASE UNCHANGED Ledger!ledger
  <2>1. SettledAmount' = SettledAmount /\ Wallets' = Wallets /\ T = S
    BY <1>2, <1>5 DEF Ledger!ledger
  <2> QED
    BY <1>1, <2>1
<1>6. ASSUME NEW r \in RideIds, NEW e \in Drivers, Ledger!Open(r, e)
      PROVE  SumFunctionOnSet(SettledAmount', T) = Wallets'[d]
  <2>1. /\ Payee[r] = None /\ SettledAmount' = SettledAmount /\ Wallets' = Wallets
        /\ \A s \in RideIds : s # r => Payee'[s] = Payee[s]
    BY <1>6 DEF Ledger!Open, Payee
  <2>2. SettledAmount[r] = Unpaid
    BY <2>1, LedgerShape
  <2>3. T = S
    BY <1>2, <1>4, <2>1, <2>2
  <2> QED
    BY <1>1, <2>1, <2>3
<1>7. ASSUME NEW r \in RideIds, NEW fare \in Fares \cap Nat, Ledger!Settle(r, fare)
      PROVE  SumFunctionOnSet(SettledAmount', T) = Wallets'[d]
  <2>1. /\ Payee[r] \in Drivers /\ SettledAmount[r] = Unpaid /\ Payee' = Payee
        /\ SettledAmount'[r] = fare
        /\ \A s \in RideIds : s # r => SettledAmount'[s] = SettledAmount[s]
        /\ Wallets'[d] = IF d = Payee[r] THEN Wallets[d] + fare ELSE Wallets[d]
    BY <1>7 DEF Ledger!Settle, SettledAmount, Wallets
  <2>2. fare # Unpaid /\ fare \in Int
    BY DEF Unpaid
  <2>3. r \notin S /\ SumFunctionOnSet(SettledAmount, S) \in Int
    BY <1>2, <1>3, <1>4, <2>1, SumType
  <2>4. CASE d = Payee[r]
    <3>1. r \in T /\ T \ {r} = S /\ \A s \in T : SettledAmount[s] \in Int
      BY <1>2, <1>4, <2>1, <2>2, <2>4
    <3>2. SumFunctionOnSet(SettledAmount', T)
            = SettledAmount'[r] + SumFunctionOnSet(SettledAmount, T \ {r})
      BY <1>2, <1>3, <2>1, <2>2, <3>1, SumWith
    <3>3. SumFunctionOnSet(SettledAmount', T) = fare + Wallets[d] /\ Wallets[d] \in Int
      BY <1>1, <2>1, <2>3, <3>1, <3>2
    <3> QED
      BY <2>1, <2>2, <2>4, <3>3
  <2>5. CASE d # Payee[r]
    <3>1. T = S
      BY <1>2, <2>1, <2>5
    <3>2. SumFunctionOnSet(SettledAmount', S) = SumFunctionOnSet(SettledAmount, S)
      BY <1>2, <1>3, <1>4, <2>1, <2>3, SumSame
    <3> QED
      BY <1>1, <2>1, <2>5, <3>1, <3>2
  <2> QED
    BY <2>4, <2>5
<1> QED
  BY <1>5, <1>6, <1>7 DEF Ledger!Next

\* With clients that wait for answers a driver's wallet is at every moment the sum
\* of the fares his rides were settled for.
THEOREM WalletsStayBalanced == SerialSpec => []WalletsBalance
<1>1. Init => WalletsBalance
  <2> SUFFICES ASSUME Ledger!Init, NEW d \in Drivers
               PROVE  Wallets[d] = SumFunctionOnSet(SettledAmount, Ledger!SettledFor(d))
    BY LedgerInit, BalancedAsSum
  <2>1. Ledger!SettledFor(d) = {} /\ Wallets[d] = 0
    BY DEF Ledger!Init, Ledger!SettledFor
  <2> QED
    BY <2>1, SumOfNone
<1>2. SerialInv /\ WalletsBalance /\ [SerialNext]_vars => SerialInv' /\ WalletsBalance'
  BY SerialStep, LedgerStep, BalanceStep
<1> QED
  BY <1>1, <1>2, SerialInit, PTL DEF SerialSpec

-----------------------------------------------------------------------------
(* What racing updates leave the driver *)

RidesOf(d) == {r \in RideIds : rides[r] # None /\ rides[r].driver = d}

\* Up to top[r] has been credited for ride r: no record that was credited, stored
\* or in some thread's hands, holds more, and the wallets hold all of it.
Covers(top) ==
    /\ top \in [RideIds -> Nat]
    /\ \A r \in RideIds : rides[r] = None => top[r] = 0
    /\ \A r \in RideIds : rides[r] # None /\ rides[r].fareRecorded => rides[r].fare <= top[r]
    /\ \A t \in Threads : rec[t] # None /\ rec[t].fareRecorded /\ pc[t] # "credit" =>
          rec[t].fare <= top[rec[t].id]
    /\ \A d \in Drivers : SumFunctionOnSet(top, RidesOf(d)) <= drivers[d].wallet

CreditsCover == \E top : Covers(top)

LEMMA RidesFinite ==
  /\ IsFiniteSet(RideIds)
  /\ \A S \in SUBSET RideIds : IsFiniteSet(S)
<1>1. IsFiniteSet(RideIds)
  BY HandlerAssumption, FS_Interval DEF RideIds
<1> QED
  BY <1>1, FS_Subset

LEMMA CoversInit == Init => CreditsCover
<1> SUFFICES ASSUME Init PROVE CreditsCover
  OBVIOUS
<1> DEFINE top == [r \in RideIds |-> 0]
<1>1. ASSUME NEW d \in Drivers PROVE SumFunctionOnSet(top, RidesOf(d)) <= drivers[d].wallet
  <2>1. RidesOf(d) = {} /\ drivers[d].wallet = 0
    BY DEF Init, MemoryInit, NoDriverState, RidesOf
  <2> HIDE DEF top
  <2> QED
    BY <2>1, SumOfNone
<1>2. Covers(top)
  <2> HIDE DEF RidesOf
  <2> QED
    BY <1>1 DEF Covers, Init, MemoryInit, ThreadsInit
<1> HIDE DEF top
<1> QED
  BY <1>2 DEF CreditsCover

\* Steps that move no wallet and store no record keep what covers the rest.
LEMMA CoversKept ==
  ASSUME OwnerInv, NEW top, Covers(top), NEW t \in Threads, rides' = rides,
         \A d \in Drivers : drivers'[d].wallet = drivers[d].wallet,
         \A u \in Threads : u # t => rec'[u] = rec[u] /\ pc'[u] = pc[u],
         rec'[t] # None /\ rec'[t].fareRecorded /\ pc'[t] # "credit" =>
            rec'[t].fare <= top[rec'[t].id]
  PROVE  CreditsCover'
<1>1. \A d \in Drivers : RidesOf(d)' = RidesOf(d)
  BY DEF RidesOf
<1>2. Covers(top)'
  BY <1>1 DEF Covers
<1> QED
  BY <1>2 DEF CreditsCover

LEMMA CoversAdds ==
  ASSUME OwnerInv, NEW top, Covers(top), NEW t \in Threads, CreditDriver(t)
  PROVE  CreditsCover'
<1> PICK r, d, fare : r = rec[t].id /\ d = rec[t].driver /\ fare = rec[t].fare
  OBVIOUS
<1>1. /\ rec[t] # None /\ rec[t] \in Ride /\ r \in RideIds /\ d \in Drivers /\ fare \in Nat
      /\ rides[r] # None /\ rides[r].driver = d
      /\ rides' = rides /\ rec' = rec /\ \A u \in Threads : u # t => pc'[u] = pc[u]
  BY DEF CreditDriver, Goto, database, OwnerInv, TypeOK, CopiesAgree, SameParties, Ride
<1>2. \A e \in Drivers : drivers[e].wallet \in Nat
         /\ drivers'[e].wallet = IF e = d THEN drivers[e].wallet + fare ELSE drivers[e].wallet
  BY <1>1 DEF CreditDriver, OwnerInv, TypeOK, DriverState
<1> DEFINE more == [top EXCEPT ![r] = @ + fare]
<1>3. /\ top \in [RideIds -> Nat] /\ more \in [RideIds -> Nat]
      /\ more[r] = top[r] + fare /\ \A s \in RideIds : s # r => more[s] = top[s]
  BY <1>1 DEF Covers
<1> HIDE DEF more
<1>4. ASSUME NEW e \in Drivers PROVE SumFunctionOnSet(more, RidesOf(e)') <= drivers'[e].wallet
  <2> PICK S : S = RidesOf(e)
    OBVIOUS
  <2>1. /\ S \subseteq RideIds /\ IsFiniteSet(S) /\ RidesOf(e)' = S
        /\ r \in S <=> e = d
    BY <1>1, RidesFinite DEF RidesOf
  <2>2. SumFunctionOnSet(top, S) <= drivers[e].wallet
    BY DEF Covers
  <2>3. \A s \in S : top[s] \in Int /\ more[s] \in Int
    BY <1>3, <2>1
  <2>4. SumFunctionOnSet(top, S) \in Int
    BY <2>1, <2>3, SumType
  <2>5. CASE e = d
    <3>1. \A s \in S \ {r} : more[s] = top[s]
      BY <1>3, <2>1
    <3> PICK rest : rest = SumFunctionOnSet(top, S \ {r})
      OBVIOUS
    <3>2. IsFiniteSet(S) /\ IsFiniteSet(S \ {r}) /\ r \in S /\ more[r] \in Int
      BY <2>1, <2>3, <2>5, FS_Subset
    <3>3. SumFunctionOnSet(more, S) = more[r] + rest
      BY <2>3, <3>1, <3>2, SumWith
    <3>4. SumFunctionOnSet(top, S) = top[r] + rest
      BY <2>3, <3>2, SumOfRest
    <3>5. rest \in Int
      BY <2>3, <3>2, SumType
    <3>6. SumFunctionOnSet(more, S) = SumFunctionOnSet(top, S) + fare
      BY <1>1, <1>3, <3>3, <3>4, <3>5
    <3> QED
      BY <1>1, <1>2, <2>1, <2>2, <2>4, <2>5, <3>6
  <2>6. CASE e # d
    <3>1. SumFunctionOnSet(more, S) = SumFunctionOnSet(top, S)
      BY <1>3, <2>1, <2>3, <2>6, SumSame
    <3> QED
      BY <1>2, <2>1, <2>2, <2>6, <3>1
  <2> QED
    BY <2>5, <2>6
<1>5. \A s \in RideIds : top[s] <= more[s] /\ top[s] \in Nat /\ more[s] \in Nat
  BY <1>1, <1>3
<1>6. \A s \in RideIds : rides'[s] = None => more[s] = 0
  BY <1>1, <1>3 DEF Covers
<1>7. \A s \in RideIds : rides'[s] # None /\ rides'[s].fareRecorded => rides'[s].fare <= more[s]
  <2>1. \A s \in RideIds : rides[s] # None => rides[s].fare \in Nat
    BY DEF OwnerInv, TypeOK, Ride
  <2> QED
    BY <1>1, <1>5, <2>1 DEF Covers
<1>8. ASSUME NEW u \in Threads, rec'[u] # None, rec'[u].fareRecorded, pc'[u] # "credit"
      PROVE  rec'[u].fare <= more[rec'[u].id]
  <2>1. rec[u].id \in RideIds /\ rec[u].fare \in Nat
    BY <1>1, <1>8 DEF OwnerInv, TypeOK, Ride
  <2>2. CASE u = t
    BY <1>1, <1>3, <2>1, <2>2
  <2>3. CASE u # t
    <3>1. rec[u].fare <= top[rec[u].id]
      BY <1>1, <1>8, <2>3 DEF Covers
    <3> QED
      BY <1>1, <1>5, <2>1, <3>1
  <2> QED
    BY <2>2, <2>3
<1>9. Covers(more)'
  BY <1>3, <1>4, <1>6, <1>7, <1>8 DEF Covers
<1> QED
  BY <1>9 DEF CreditsCover

LEMMA CoversStored ==
  ASSUME OwnerInv, NEW top, Covers(top), NEW t \in Threads, InsertRide(t) \/ WriteBack(t)
  PROVE  CreditsCover'
<1> PICK r : r = rec[t].id
  OBVIOUS
<1>1. /\ rec[t] # None /\ rec[t] \in Ride /\ r \in RideIds /\ pc[t] \in {"insert", "write"}
      /\ rec' = rec /\ rides' = [rides EXCEPT ![r] = rec[t]] /\ drivers' = drivers
      /\ pc'[t] \in {"reserve", "persist"} /\ \A u \in Threads : u # t => pc'[u] = pc[u]
  BY DEF InsertRide, WriteBack, Goto, database, OwnerInv, TypeOK, Ride
<1>2. rides'[r] = rec[t] /\ \A s \in RideIds : s # r => rides'[s] = rides[s]
  BY <1>1 DEF OwnerInv, TypeOK
<1>3. rides[r] = None \/ rides[r].driver = rec[t].driver
  BY <1>1 DEF OwnerInv, CopiesAgree, NewRidesAlone, SameParties
<1>4. rec[t].fareRecorded => rec[t].fare <= top[r]
  BY <1>1 DEF Covers
<1>5. ASSUME NEW d \in Drivers
      PROVE  SumFunctionOnSet(top, RidesOf(d)') = SumFunctionOnSet(top, RidesOf(d))
  <2> PICK S, T : S = RidesOf(d) /\ T = RidesOf(d)'
    OBVIOUS
  <2>1. S \subseteq RideIds /\ T \subseteq RideIds /\ IsFiniteSet(S) /\ IsFiniteSet(T)
    BY RidesFinite DEF RidesOf
  <2>2. \A s \in RideIds : s # r => (s \in S <=> s \in T)
    BY <1>2 DEF RidesOf
  <2>3. CASE rides[r] = None /\ r \in T
    <3>1. top[r] = 0 /\ T \ {r} = S
      BY <1>1, <2>1, <2>2, <2>3 DEF RidesOf, Covers
    <3>2. SumFunctionOnSet(top, T) = top[r] + SumFunctionOnSet(top, T \ {r})
      <4>1. \A s \in T : top[s] \in Int
        BY <2>1 DEF Covers
      <4> QED
        BY <2>1, <2>3, <4>1, SumOfRest
    <3>3. SumFunctionOnSet(top, S) \in Int
      <4>1. \A s \in S : top[s] \in Int
        BY <2>1 DEF Covers
      <4> QED
        BY <2>1, <4>1, SumType
    <3>4. SumFunctionOnSet(top, T \ {r}) = SumFunctionOnSet(top, S)
      BY <3>1
    <3>5. SumFunctionOnSet(top, T) = SumFunctionOnSet(top, S)
      BY <3>1, <3>2, <3>3, <3>4
    <3> QED
      BY <3>5
  <2>4. CASE ~(rides[r] = None /\ r \in T)
    <3>1. r \in S <=> r \in T
      BY <1>1, <1>2, <1>3, <2>4 DEF RidesOf
    <3>2. S = T
      BY <2>1, <2>2, <3>1
    <3> QED
      BY <3>2
  <2> QED
    BY <2>3, <2>4
<1>6. \A s \in RideIds : rides'[s] = None => top[s] = 0
  BY <1>1, <1>2 DEF Covers
<1>7. \A s \in RideIds : rides'[s] # None /\ rides'[s].fareRecorded => rides'[s].fare <= top[s]
  BY <1>2, <1>4 DEF Covers
<1>8. \A u \in Threads : rec'[u] # None /\ rec'[u].fareRecorded /\ pc'[u] # "credit" =>
         rec'[u].fare <= top[rec'[u].id]
  BY <1>1 DEF Covers
<1>9. \A d \in Drivers : SumFunctionOnSet(top, RidesOf(d)') <= drivers'[d].wallet
  BY <1>1, <1>5 DEF Covers
<1>10. Covers(top)'
  BY <1>6, <1>7, <1>8, <1>9 DEF Covers
<1> QED
  BY <1>10 DEF CreditsCover

LEMMA CoversStep ==
  ASSUME OwnerInv, OwnerInv', CreditsCover, [Next]_vars
  PROVE  CreditsCover'
<1> PICK top : Covers(top)
  BY DEF CreditsCover
<1>1. ASSUME UNCHANGED <<rides, rec, pc>>,
             \A d \in Drivers : drivers'[d].wallet = drivers[d].wallet
      PROVE  CreditsCover'
  <2>1. \A d \in Drivers : RidesOf(d)' = RidesOf(d)
    BY <1>1 DEF RidesOf
  <2>2. Covers(top)'
    BY <1>1, <2>1 DEF Covers
  <2> QED
    BY <2>2 DEF CreditsCover
<1>2. CASE DriverReports
  <2>1. PICK d \in Drivers, a \in BOOLEAN, r \in RideIds \cup {NoRideId} : ReportDriver(d, a, r)
    BY <1>2, ReportOf DEF OwnerInv
  <2>2. \A e \in Drivers : drivers'[e].wallet = drivers[e].wallet
    BY <2>1, AvailabilityType DEF ReportDriver, OwnerInv, TypeOK
  <2> QED
    BY <1>1, <2>1, <2>2 DEF ReportDriver, threads
<1>3. CASE UNCHANGED vars
  BY <1>1, <1>3 DEF vars, memory, threads
<1>4. ASSUME NEW t \in Threads,
             \/ (RequestStep(t) /\ ~InsertRide(t)) \/ ReceiveRequest(t)
             \/ AcceptRide(t) \/ LookupRide(t) \/ ReleaseDriver(t)
             \/ PersistRide(t) \/ PublishRide(t) \/ NotifyDriver(t)
      PROVE  CreditsCover'
  <2>1. /\ rides' = rides
        /\ \A u \in Threads : u # t => rec'[u] = rec[u] /\ pc'[u] = pc[u]
        /\ \/ rec'[t] = None \/ (rec'[t] = rec[t] /\ pc[t] # "credit")
           \/ ~rec'[t].fareRecorded
    <3> TypeOK
      BY DEF OwnerInv
    <3>1. CASE (RequestStep(t) /\ ~InsertRide(t) /\ ~NumberRide(t)) \/ ReceiveRequest(t)
      BY <3>1 DEF RequestStep, TakeCandidate, SkipCandidate, FallbackScan, SelectDriver,
         RejectRequest, ReserveDriver, ReceiveRequest, StartRequest,
         Goto, memory, database, brokers, TypeOK
    <3>2. CASE NumberRide(t)
      BY <3>2 DEF NumberRide, NewRide, Goto, memory, database, brokers, TypeOK
    <3>3. CASE AcceptRide(t) \/ LookupRide(t) \/ ReleaseDriver(t)
      BY <3>3 DEF AcceptRide, LookupRide, ReleaseDriver, Goto, memory, TypeOK
    <3>4. CASE PersistRide(t) \/ PublishRide(t) \/ NotifyDriver(t)
      BY <3>4 DEF PersistRide, PublishRide, NotifyDriver, Goto, memory, TypeOK
    <3> QED
      BY <1>4, <3>1, <3>2, <3>3, <3>4
  <2>2. \A d \in Drivers : drivers'[d].wallet = drivers[d].wallet
    <3>1. CASE drivers' = drivers
      BY <3>1
    <3>2. CASE ReserveDriver(t) \/ AcceptRide(t) \/ ReleaseDriver(t)
      <4>1. rec[t] \in Ride
        <5>1. pc[t] \in {"reserve", "accept", "release"}
          BY <3>2 DEF ReserveDriver, AcceptRide, ReleaseDriver, Goto
        <5> QED
          BY <5>1 DEF OwnerInv, TypeOK
      <4>2. PICK a \in BOOLEAN, r \in RideIds \cup {NoRideId} :
                   SetDriverAvailability(rec[t].driver, a, r)
        BY <3>2, <4>1 DEF ReserveDriver, AcceptRide, ReleaseDriver, Ride
      <4>3. rec[t].driver \in Drivers /\ drivers \in [Drivers -> DriverState]
        BY <4>1 DEF Ride, OwnerInv, TypeOK
      <4> QED
        BY <4>2, <4>3, AvailabilityType
    <3> QED
      BY <1>4, <3>1, <3>2
      DEF RequestStep, TakeCandidate, SkipCandidate, FallbackScan, SelectDriver,
         RejectRequest, NumberRide, ReceiveRequest, StartRequest,
         LookupRide, PersistRide, PublishRide, NotifyDriver, memory
  <2> QED
    BY <2>1, <2>2, CoversKept DEF Covers
<1>5. ASSUME NEW t \in Threads, InsertRide(t) \/ WriteBack(t) PROVE CreditsCover'
  BY <1>5, CoversStored
<1>6. ASSUME NEW t \in Threads, CreditDriver(t) PROVE CreditsCover'
  BY <1>6, CoversAdds
<1>7. ASSUME NEW t \in Threads, RecordPayment(t) PROVE CreditsCover'
  <2>1. PICK paid : paid = [rec[t] EXCEPT !.paymentRecorded = TRUE]
    OBVIOUS
  <2>2. /\ rides' = rides /\ drivers' = drivers /\ pc[t] = "pay"
        /\ rec[t] # None /\ rec[t] \in Ride
        /\ \A u \in Threads : u # t => rec'[u] = rec[u] /\ pc'[u] = pc[u]
        /\ rec'[t] \in {rec[t], paid}
    BY <1>7, <2>1 DEF RecordPayment, Goto, memory, OwnerInv, TypeOK
  <2>3. paid.id = rec[t].id /\ paid.fare = rec[t].fare /\ paid.fareRecorded = rec[t].fareRecorded
    BY <2>1, <2>2 DEF Ride
  <2>4. rec'[t].fareRecorded => rec'[t].fare <= top[rec'[t].id]
    BY <2>2, <2>3 DEF Covers
  <2> QED
    BY <2>2, <2>4, CoversKept
<1>8. ASSUME NEW t \in Threads, NEW r \in RideIds, ReceiveUpdate(t, r) PROVE CreditsCover'
  <2>1. PICK status \in Reported, fare \in Fares : StartUpdate(t, r, status, fare)
    BY <1>8 DEF ReceiveUpdate
  <2>2. PICK copy : copy = Updated(rides[r], status, fare)
    OBVIOUS
  <2>3. /\ rides[r] \in Ride /\ rides[r] # None /\ rides[r].id = r
        /\ status \in Status /\ fare \in Int
    BY <2>1, HandlerAssumption DEF StartUpdate, OwnerInv, TypeOK, IdsDrawn
  <2>4. /\ rides' = rides /\ drivers' = drivers /\ rec'[t] = copy
        /\ pc'[t] = Branch(rides[r], status, fare)
        /\ \A u \in Threads : u # t => rec'[u] = rec[u] /\ pc'[u] = pc[u]
    BY <2>1, <2>2 DEF StartUpdate, OwnerInv, TypeOK, Goto, memory
  <2>5. copy.id = r
    BY <2>2, <2>3, UpdatedType
  <2>6. CASE Settles(rides[r], status, fare)
    <3>1. pc'[t] = "credit"
      BY <2>4, <2>6 DEF Branch, Settles
    <3> QED
      BY <2>4, <3>1, CoversKept
  <2>7. CASE ~Settles(rides[r], status, fare)
    <3>1. copy.fareRecorded = rides[r].fareRecorded /\ copy.fare = rides[r].fare
      BY <2>2, <2>3, <2>7 DEF Updated, Ride
    <3>2. copy.fareRecorded => copy.fare <= top[copy.id]
      BY <2>3, <2>5, <3>1 DEF Covers
    <3> QED
      BY <2>4, <3>2, CoversKept
  <2> QED
    BY <2>6, <2>7
<1> QED
  BY <1>2, <1>3, <1>4, <1>5, <1>6, <1>7, <1>8 DEF Next, HandlerStep, RequestStep, UpdateStep

\* Even when the updates of one ride race, a driver's wallet holds at least the
\* fares his stored rides record.
THEOREM NobodyUnderpaid == Spec => []NeverUnderpaid
<1>1. OwnerInv /\ CreditsCover => NeverUnderpaid
  <2> SUFFICES ASSUME OwnerInv, CreditsCover, NEW d \in Drivers
               PROVE  drivers[d].wallet >=
                        SumFunctionOnSet([r \in RideIds |-> IF rides[r] = None THEN 0
                                                            ELSE rides[r].fare],
                                         {r \in RideIds : rides[r] # None /\ rides[r].driver = d
                                                            /\ rides[r].fareRecorded})
    BY DEF NeverUnderpaid
  <2> DEFINE fares == [r \in RideIds |-> IF rides[r] = None THEN 0 ELSE rides[r].fare]
             Paid == {r \in RideIds : rides[r] # None /\ rides[r].driver = d
                                        /\ rides[r].fareRecorded}
  <2>1. PICK top : Covers(top)
    BY DEF CreditsCover
  <2>2. /\ Paid \subseteq RidesOf(d) /\ Paid \subseteq RideIds
        /\ IsFiniteSet(RidesOf(d)) /\ IsFiniteSet(Paid)
    BY RidesFinite DEF RidesOf
  <2>3. \A r \in RidesOf(d) : top[r] \in Nat
    BY <2>1 DEF Covers, RidesOf
  <2>4. \A r \in Paid : fares[r] \in Int /\ top[r] \in Int /\ fares[r] <= top[r]
    BY <2>1 DEF Covers, OwnerInv, TypeOK, Ride
  <2>5. \A r \in Paid : fares[r] \in Int /\ top[r] \in Int
    BY <2>4
  <2> HIDE DEF fares, Paid
  <2>6. SumFunctionOnSet(fares, Paid) <= SumFunctionOnSet(top, Paid)
    BY <2>2, <2>4, SumCompared
  <2>7. SumFunctionOnSet(top, Paid) <= SumFunctionOnSet(top, RidesOf(d))
    BY <2>2, <2>3, SumGrows
  <2>8. SumFunctionOnSet(top, RidesOf(d)) <= drivers[d].wallet
    BY <2>1 DEF Covers
  <2>9. /\ SumFunctionOnSet(fares, Paid) \in Int /\ SumFunctionOnSet(top, Paid) \in Int
        /\ SumFunctionOnSet(top, RidesOf(d)) \in Int
    <3>1. \A r \in RidesOf(d) : top[r] \in Int
      BY <2>3
    <3> QED
      BY <2>2, <2>5, <3>1, SumType
  <2>10. drivers[d].wallet \in Int
    BY DEF OwnerInv, TypeOK, DriverState
  <2>11. drivers[d].wallet >= SumFunctionOnSet(fares, Paid)
    BY <2>6, <2>7, <2>8, <2>9, <2>10
  <2> QED
    BY <2>11 DEF fares, Paid
<1>2. OwnerInv /\ CreditsCover /\ [Next]_vars => OwnerInv' /\ CreditsCover'
  BY OwnerStep, CoversStep
<1> QED
  BY <1>1, <1>2, OwnerInit, CoversInit, PTL DEF Spec
=============================================================================
