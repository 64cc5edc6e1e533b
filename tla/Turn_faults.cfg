SPECIFICATION FairSpec
CONSTANTS
    Calls = {c1}
    Compactions = {k1}
    NoTurn = NoTurn
    Deliveries = {"none", "queue", "steer"}
    Serial = FALSE
    MaxEngines = 2
    MaxInterrupts = 0
    MaxUnloads = 1
    MaxFailures = 1
    MaxCrashes = 1
INVARIANTS
    TypeOK
    InProgressIsWatched
    BusyIsTemporary
PROPERTIES
    ImplementsTurnLife
    AcceptedTurnEnds
CHECK_DEADLOCK FALSE
