SPECIFICATION Spec
CONSTANTS
    Sidecars = {p1}
    NoSidecar = NoSidecar
    MaxRefused = 2
    MaxTimeouts = 12
    MaxRetries = 1
    MaxRapid = 3
    MaxRequests = 0
    MaxFaults = 4
    MaxExits = 0
    MaxTurns = 0
    MaxKept = 0
INVARIANTS
    BackoffAfterRapidCrashes
CHECK_DEADLOCK FALSE
