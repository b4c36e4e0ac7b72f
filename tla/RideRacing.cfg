SPECIFICATION Spec
CONSTANTS
    Threads = {t1, t2}
    Riders = {u1, u2}
    Drivers = {d1}
    Reported = {"in_progress", "completed"}
    Fares <- MCFaresTwo
    Named = {0}
    MaxRides = 2
    MaxWallet = 5
    MaxNearby = 1
    Durable = FALSE
    DbFaults = FALSE
    None = None
SYMMETRY Symmetry
INVARIANTS
    RidesHaveOneOwner
    NeverUnderpaid
PROPERTY
    RidesKeepParties
