SPECIFICATION SerialSpec
CONSTANTS
    Threads = {t1, t2}
    Riders = {u1, u2}
    Drivers = {d1}
    Reported = {"accepted", "completed", "cancelled"}
    Fares <- MCFares
    Named = {0}
    MaxRides = 2
    MaxWallet = 7
    MaxNearby = 0
    Durable = FALSE
    DbFaults = FALSE
    None = None
INVARIANT NoDoubleBooking
