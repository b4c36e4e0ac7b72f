SPECIFICATION CrashSpec
CONSTANTS
    Threads = {t1}
    Riders = {u1}
    Drivers = {d1}
    Reported = {"completed"}
    Fares <- MCFares
    Named = {0}
    MaxRides = 2
    MaxWallet = 5
    MaxNearby = 1
    Durable = TRUE
    DbFaults = TRUE
    None = None
INVARIANT ReportedPaymentsExist
PROPERTY EveryCallAnswered
