---------------------------- MODULE RideSettlement ----------------------------
(***************************************************************************)
(* The ride handlers as an implementation of the ledger.  A ride counts as *)
(* settled from the moment its driver is credited: first only a thread's   *)
(* copy says so, then, once written back, the stored record.               *)
(***************************************************************************)
EXTENDS RideRouteHandler, Functions

\* Threads that credited ride r's driver and have not written it back.
Settling(r) ==
    {t \in InHand(r) : /\ pc[t] \in {"lookup", "pay", "release", "write"}
                       /\ rec[t].fareRecorded}

Payee == [r \in RideIds |-> IF rides[r] = None THEN None ELSE rides[r].driver]

SettledAmount == [r \in RideIds |->
    IF Settling(r) # {} THEN rec[CHOOSE t \in Settling(r) : TRUE].fare
    ELSE IF rides[r] # None /\ rides[r].fareRecorded THEN rides[r].fare
    ELSE Unpaid]

Wallets == [d \in Drivers |-> drivers[d].wallet]

Ledger == INSTANCE RideLedger WITH
    Nobody <- None, Unsettled <- Unpaid, Amounts <- Fares \cap Nat,
    payee <- Payee, amount <- SettledAmount, balance <- Wallets

-----------------------------------------------------------------------------
\* Disciplined clients see a ledger: creditDriverWallet runs at most once per
\* ride, for the driver and the fare the record carries, however requests,
\* updates of other rides and driver reports interleave and whatever
\* statements of the database fail.
LedgerSpec == Ledger!Spec

\* At every moment a driver's wallet is the sum of the fares of his settled
\* rides (creditDriverWallet against fareRecorded/fareAmount).
WalletsBalance == Ledger!Balanced

\* What is in the payments table is the fare the driver was credited for that
\* ride, also when statements fail and completions are repeated
\* (recordPaymentInDatabase against creditDriverWallet).
PaymentsMatchLedger ==
    \A r \in RideIds : payments[r] # Unpaid => payments[r] = SettledAmount[r]

\* A payment a ride reports as recorded is in the payments table with the
\* ride's fare, whatever statements fail, and whatever a crashed predecessor of
\* the process left under the same id (paymentRecorded, the "payment" section
\* of rideToJson).
ReportedPaymentsExist ==
    \A r \in RideIds :
        rides[r] # None /\ rides[r].paymentRecorded => payments[r] = rides[r].fare

\* Between calls, memory, the rides table and the last message on each broker
\* channel tell the same status, and memory and table the same fare
\* (persistRide, publishEvent and publishDriverNotification after the write-back).
QuietRidesAgree ==
    \A r \in RideIds :
        rides[r] # None /\ InHand(r) = {} =>
            /\ rideRows[r] = [rider |-> rides[r].rider, driver |-> rides[r].driver,
                              status |-> rides[r].status,
                              fare |-> IF rides[r].fareRecorded THEN rides[r].fare
                                       ELSE Unpaid]
            /\ lifecycle[r] = rides[r].status
            /\ notices[r] = rides[r].status

\* Between calls, a ride with a recorded fare has its payment in the database
\* (the completion handler records fare, credit and payment together).
SettledRidesArePaid ==
    \A r \in RideIds :
        rides[r] # None /\ InHand(r) = {} /\ rides[r].fareRecorded =>
            rides[r].paymentRecorded /\ payments[r] = rides[r].fare

\* Even when updates of one ride race, no driver is left short: his wallet
\* holds at least the fares recorded in his rides (creditDriverWallet runs
\* before the record with the fare is written back).
NeverUnderpaid ==
    \A d \in Drivers :
        drivers[d].wallet >=
            SumFunctionOnSet([r \in RideIds |-> IF rides[r] = None THEN 0
                                                ELSE rides[r].fare],
                             {r \in RideIds : rides[r] # None /\ rides[r].driver = d
                                                /\ rides[r].fareRecorded})
-----------------------------------------------------------------------------
(* What the documentation says of the rides, and the code does not do. *)

\* Matching gives a driver to one ride only: two stored rides are never both
\* about to reserve the same driver (handleRideRequest checks availability in
\* one lock section and reserves in another).
NoDoubleBooking ==
    \A t, u \in Threads :
        t # u /\ pc[t] = "reserve" /\ pc[u] = "reserve" =>
            rec[t].driver # rec[u].driver

\* The row of a ride that was requested and answered is that ride's row, also
\* after a restart of the process (generateRideId, persistRide).
RowsNameTheirRide ==
    \A r \in RideIds :
        rides[r] # None /\ InHand(r) = {} /\ rideRows[r] # None =>
            SameParties(rideRows[r], rides[r])
=============================================================================
