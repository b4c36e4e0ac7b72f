------------------------------ MODULE RideLedger ------------------------------
(***************************************************************************)
(* What RideManager promises about money: a ride is opened once for one    *)
(* driver, settled at most once for one amount, and the driver is paid     *)
(* exactly that amount.                                                    *)
(***************************************************************************)
EXTENDS Integers, Functions

CONSTANTS
    RideIds,  \* ride identifiers
    Drivers,  \* the payees
    Amounts,  \* what a ride can be settled for
    Nobody,   \* no driver: payee of a ride that is not open yet
    Unsettled \* no amount: what a ride holds
              \* that nobody has been paid for yet

VARIABLES
    payee,    \* the driver of each ride
    amount,   \* what each ride was settled for
    balance   \* what each driver has received

ledger == <<payee, amount, balance>>

Init ==
    /\ payee = [r \in RideIds |-> Nobody]
    /\ amount = [r \in RideIds |-> Unsettled]
    /\ balance = [d \in Drivers |-> 0]

Open(r, d) ==
    /\ payee[r] = Nobody
    /\ payee' = [payee EXCEPT ![r] = d]
    /\ UNCHANGED <<amount, balance>>

\* Variant: a settled ride is settled again.
SettleAgain(r, fare) ==
    /\ payee[r] \in Drivers
    /\ amount' = [amount EXCEPT ![r] = fare]
    /\ balance' = [balance EXCEPT ![payee[r]] = @ + fare]
    /\ UNCHANGED payee

Settle(r, fare) ==
    /\ payee[r] \in Drivers
    /\ amount[r] = Unsettled
    /\ amount' = [amount EXCEPT ![r] = fare]
    /\ balance' = [balance EXCEPT ![payee[r]] = @ + fare]
    /\ UNCHANGED payee

Next ==
    \/ \E r \in RideIds, d \in Drivers : Open(r, d)
    \/ \E r \in RideIds, fare \in Amounts : Settle(r, fare)

Spec == Init /\ [][Next]_ledger

-----------------------------------------------------------------------------
SettledFor(d) == {r \in RideIds : payee[r] = d /\ amount[r] # Unsettled}

\* Nothing is paid twice and nothing is lost: a driver's balance is the sum of
\* the amounts his rides were settled for (the wallet that creditDriverWallet
\* keeps against the fares the ride records carry).
Balanced ==
    \A d \in Drivers : balance[d] = SumFunctionOnSet(amount, SettledFor(d))
=============================================================================
