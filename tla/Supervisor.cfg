SPECIFICATION FairSpec
CONSTANTS
    Sidecars = {p1, p2}
    NoSidecar = NoSidecar
    MaxRefused = 2
    MaxTimeouts = 2
    MaxRetries = 1
    MaxRapid = 0
    MaxRequests = 2
    MaxFaults = 1
    MaxExits = 1
    MaxTurns = 1
    MaxKept = 1
INVARIANTS
    TypeOK
    OneSidecar
    ForceOnce
PROPERTIES
    PatientWithBusy
    ConfigApplied
    BrokenIsReplaced
    OrphanReclaimed
CHECK_DEADLOCK FALSE
