SPECIFICATION SerialSpec
CONSTANTS
    Threads = {t1, t2}
    Riders = {u1}
    Drivers = {d1, d2}
    Reported = {"accepted", "completed", "cancelled"}
    Fares <- MCFaresSome
    Named = {0}
    MaxRides = 2
    MaxWallet = 20
    MaxNearby = 0
    Durable = TRUE
    DbFaults = FALSE
    None = None
SYMMETRY Symmetry
INVARIANTS
    TypeOK
    WalletsBalance
    PaymentsMatchLedger
    QuietRidesAgree
    SettledRidesArePaid
    FaresReadAsWritten
PROPERTY LedgerSpec
