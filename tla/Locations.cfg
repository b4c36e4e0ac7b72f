SPECIFICATION Spec
CONSTANTS
    MaxLat = 3
    MaxLng = 6
    Scale = 1000
    Hav <- MCHav
    DefaultRadius = 2
    Threads = {t1, t2}
    Users = {u1}
    Positions <- MCPositions
    Names = {home}
    Centres <- MCCentres
    Radii = {0, 1}
    Databases = {"mysql", "stub"}
    DbFaults = TRUE
    MaxRows = 1
    MaxHidden = 1
    Null = Null
    None = None
    Unsure = Unsure
SYMMETRY Symmetry
INVARIANTS
    TypeOK
    RowsBounded
    UpdateReachesEveryRow
    SearchExact
    StubStoresNothing
PROPERTIES
    IsDirectory
